---- MODULE Spec2Model ----
(***************************************************************************)
(* A model of the two stdio MCP servers of aiStack:                        *)
(*   model-router  (src/unnamed/part_005): handleRequest, callTool,        *)
(*                 callModel / httpPostJson and runBrainstorm;             *)
(*   claude-runner (src/mcp/claude_runner/server.ts): handleRequest,       *)
(*                 callTool, validateCwd / isUnder and runClaude.          *)
(* A server process reads the messages of its input stream one by one.     *)
(* Every await of the source is a point where the model can be observed:   *)
(* a gateway call (an HTTP request) and a subprocess run are issued by one *)
(* action and completed by another.                                        *)
(***************************************************************************)
EXTENDS Integers, Sequences, FiniteSets, TLC

\* ------------------------------------------------------------------ bounds
MaxParticipants == 2   \* longest `participants` argument of a wide brainstorm call
MaxRequests == 2       \* longest input stream of small messages
MaxFail == 1           \* HTTP requests of one process that the backends fail

\* ------------------------------------------------------------- JSON values
NoId == "undefined"    \* msg.id of a notification (the key is absent)
Ids == {NoId, "a", "b"}
Absent == [k |-> "absent", v |-> 0]   \* an argument the caller left out
Num(n) == [k |-> "int", v |-> n]
NoText == [what |-> "none", ws |-> FALSE]

Min(a, b) == IF a < b THEN a ELSE b
Max(a, b) == IF a > b THEN a ELSE b

\* object[key] = value, for the string-keyed objects the source uses as maps
Put(m, key, v) == [x \in (DOMAIN m) \cup {key} |-> IF x = key THEN v ELSE m[x]]

\* String.prototype.trim on a text: the surrounding white space goes
Trim(t) == [t EXCEPT !.ws = FALSE]

\* String(x).toLowerCase() on the provider names of the model
ToLowerCase(s) == IF s = "OpenAI" THEN "openai" ELSE s

\* ---------------------------------------------------------------- toModelSpec
\* A raw participant: a JSON value. obj = FALSE is a value that is no object;
\* an absent field reads as "" (the source's `obj.x || ""`).
RawItem(obj, id, provider, model, key, url) ==
    [obj |-> obj, id |-> id, provider |-> provider, model |-> model,
     api_key |-> key, api_url |-> url]

\* a trim() that leaves white space in place
KeepSpace(s) == s

\* String.prototype.trim on the strings of the model: " " is the string of
\* white space only, every other string has none at its ends
TrimStr(s) == IF s = " " THEN "" ELSE s

NullSpec == [id |-> "", provider |-> "", model |-> "", api_key |-> "", api_url |-> "", null |-> TRUE]

toModelSpec(input, fallbackId) ==
    IF ~input.obj THEN NullSpec
    ELSE IF ToLowerCase(input.provider) = "" \/ TrimStr(input.model) = "" THEN NullSpec
    ELSE [id |-> IF input.id = "" THEN fallbackId ELSE input.id,
          provider |-> ToLowerCase(input.provider),
          model |-> TrimStr(input.model),
          api_key |-> input.api_key,
          api_url |-> input.api_url,
          null |-> FALSE]

\* a fallback id that does not depend on the position
FallbackIdFirst(pos) == "model_1"

\* `model_${idx + 1}` for the 0-based idx of forEach; pos = idx + 1
FallbackId(pos) == <<"model_1", "model_2", "model_3", "model_4", "model_5">>[pos]

\* rawParticipants.forEach(...): the valid specs, in order, each with the
\* fallback id of its position in the raw list
RECURSIVE CollectParticipants(_, _)
CollectParticipants(raw, pos) ==
    IF pos > Len(raw) THEN << >>
    ELSE LET spec == toModelSpec(raw[pos], FallbackId(pos))
         IN  IF spec.null THEN CollectParticipants(raw, pos + 1)
             ELSE <<spec>> \o CollectParticipants(raw, pos + 1)

\* ------------------------------------------------------------------ callModel
\* The api_url strings of the model. `new URL(s)` raises on the first, and
\* https.request raises on the protocol of the second.
UrlParses(u) == u # "not a url"
ProtocolSupported(u) == u # "ftp://host/x"

\* The URL callModel hands to httpPostJson; "" stands for the provider's
\* default endpoint. A suffix appended to api_url keeps its class.
RequestUrl(spec) ==
    IF spec.api_url = "" THEN "https://default" ELSE spec.api_url

\* callModel before the HTTP request: "code2" is the early return of code 2,
\* "http" the call of httpPostJson
CallModelPre(spec) ==
    CASE spec.provider = "openai" ->
            IF spec.api_key = "" THEN "code2" ELSE "http"
      [] spec.provider = "anthropic" ->
            IF spec.api_key = "" THEN "code2" ELSE "http"
      [] spec.provider = "gemini" ->
            IF spec.api_url # "" THEN "http"
            ELSE IF spec.api_key = "" THEN "code2" ELSE "http"
      [] spec.provider = "custom" ->
            IF spec.api_url = "" THEN "code2" ELSE "http"
      [] OTHER -> "code2"

\* httpPostJson before the promise is pending: `new URL(urlStr)` and
\* lib.request(...) raise synchronously on a string that is no URL or a
\* protocol the library does not serve; the exception rejects callModel.
HttpPostRaises(url) == ~UrlParses(url) \/ ~ProtocolSupported(url)

\* How a call of callModel begins: "code2", "raise" or "http"
CallModelBegin(spec) ==
    IF CallModelPre(spec) = "code2" THEN "code2"
    ELSE IF HttpPostRaises(RequestUrl(spec)) THEN "raise"
    ELSE "http"

\* The statuses httpPostJson resolves with: 0 is req.on("error") (connection
\* error, or the timeout's req.destroy), the others a response's statusCode.
HttpStatuses == {0, 200, 500}
HttpFailed(status) == status >= 400 \/ status = 0

\* The provider's extractor on a successful response. The anthropic and gemini
\* extractors trim their result, the openai one returns the content as it is.
ExtractText(spec, ws) ==
    IF spec.provider = "openai" \/ spec.provider = "custom"
    THEN [what |-> "model", ws |-> ws]
    ELSE [what |-> "model", ws |-> FALSE]

\* callModel's early return
Code2Result == [code |-> 2, text |-> [what |-> "diag", ws |-> FALSE]]

\* a callModel that takes only a status >= 400 for a failure
CallModelPostNoZeroTest(spec, status, ws) ==
    IF status >= 400
    THEN [code |-> status, text |-> [what |-> "raw", ws |-> FALSE]]
    ELSE [code |-> 0, text |-> ExtractText(spec, ws)]

\* callModel after httpPostJson has resolved with `status` and a body that
\* has surrounding white space or not
CallModelPost(spec, status, ws) ==
    IF status >= 400 \/ status = 0
    THEN [code |-> IF status = 0 THEN 1 ELSE status, text |-> [what |-> "raw", ws |-> FALSE]]
    ELSE [code |-> 0, text |-> ExtractText(spec, ws)]

\* -------------------------------------------------------------- runBrainstorm
\* The numbers of runBrainstorm: Num(n) is the integer n, Half(n) is n + 1/2,
\* NotANumber is NaN; Text is an argument that is a string of no number.
Half(n) == [k |-> "half", v |-> n]
NotANumber == [k |-> "nan", v |-> 0]
Text == [k |-> "text", v |-> 0]

\* twice a number that is not NaN
Twice(x) == IF x.k = "half" THEN 2 * x.v + 1 ELSE 2 * x.v

\* Math.min and Math.max: NaN when an argument is NaN
MathMin(a, b) ==
    IF a.k = "nan" \/ b.k = "nan" THEN NotANumber
    ELSE IF Twice(a) <= Twice(b) THEN a ELSE b

MathMax(a, b) ==
    IF a.k = "nan" \/ b.k = "nan" THEN NotANumber
    ELSE IF Twice(a) >= Twice(b) THEN a ELSE b

\* Number(x || d): an absent argument and 0 are falsy and give d, a string of
\* no number gives NaN
NumberOr(x, d) ==
    IF x.k = "absent" \/ (x.k = "int" /\ x.v = 0) THEN Num(d)
    ELSE IF x.k = "text" THEN NotANumber
    ELSE x

\* const debateRounds = Math.max(0, Math.min(5, Number(args.debate_rounds || 1)))
DebateRounds(x) == MathMax(Num(0), MathMin(Num(5), NumberOr(x, 1)))

\* i <= debateRounds, for the integer i of the debate loop
LessEq(i, n) == n.k # "nan" /\ 2 * i <= Twice(n)

\* the rounds the loop `for (let i = 1; i <= n; i += 1)` makes
LoopRounds(n) == IF n.k = "nan" THEN 0 ELSE n.v

\* String(args.synthesis_by || participants[0].id)
SynthesisBy(x, ps) == IF x = "" THEN ps[1].id ELSE x

\* a synthesis that always goes to the first participant
SynthModelFirst(ps, by) == 1

\* participants.find((m) => m.id === synthesisBy) || participants[0]
SynthModel(ps, by) ==
    IF \E j \in 1..Len(ps) : ps[j].id = by
    THEN CHOOSE j \in 1..Len(ps) : ps[j].id = by /\ \A h \in 1..(j - 1) : ps[h].id # by
    ELSE 1

\* Others that leaves the acting participant's entry in
OthersWithOwn(latest, id) == latest

\* the entries of latestInputs whose key is not the acting participant's id
Others(latest, id) == [x \in (DOMAIN latest) \ {id} |-> latest[x]]

\* what a stage stores for a participant: `(failed) ${call.text}` or
\* call.text.trim(), tagged with the gateway call that produced it
StageEntry(call, result) ==
    IF result.code # 0
    THEN [src |-> <<call.stage, call.round, call.who>>, failed |-> TRUE, text |-> result.text]
    ELSE [src |-> <<call.stage, call.round, call.who>>, failed |-> FALSE, text |-> Trim(result.text)]

\* a report that is an error only from the second logged failure on
ReportIsErrorFromSecond(errs) == Len(errs) > 1

\* isError: errors.length > 0
ReportIsError(errs) == Len(errs) > 0

\* an entry that names the stage without the debate round
ErrorEntryNoRound(call, result) ==
    [stage |-> call.stage, round |-> 0, id |-> call.id, code |-> result.code]

\* `[proposal:id] code=n`, `[debate-ri:id] code=n`, `[synthesis:id] code=n`
ErrorEntry(call, result) ==
    [stage |-> call.stage, round |-> call.round, id |-> call.id, code |-> result.code]

\* ------------------------------------------------------------------ responses
successResponse(no, id, tool, isError) ==
    [for |-> no, id |-> id, kind |-> "result", code |-> 0, tool |-> tool, isError |-> isError]

errorResponse(no, id, code) ==
    [for |-> no, id |-> id, kind |-> "error", code |-> code, tool |-> FALSE, isError |-> FALSE]

\* ------------------------------------------------------------------- messages
\* argumentsObj.f, or d when the key is absent
Arg(args, f, d) == IF f \in DOMAIN args THEN args[f] ELSE d

\* String(argumentsObj[f] || "").trim()
Required(args, f) == TrimStr(Arg(args, f, ""))

NoArgs == [none |-> TRUE]
Message(id, method, name, args) == [id |-> id, method |-> method, name |-> name, args |-> args]
NoMsg == Message(NoId, "", "", NoArgs)

Methods == {"initialize", "tools/list", "tools/call", "ping",
            "notifications/initialized", "initialized", "resources/list", ""}

\* the raw participants of the model
ItemA == RawItem(TRUE, "A", "OpenAI", "m", "k", "")
ItemB == RawItem(TRUE, "B", "anthropic", "m", "k", "")
ItemA2 == RawItem(TRUE, "A", "custom", "m", "", "https://ok")
ItemNoKey == RawItem(TRUE, "", "gemini", "m", "", "")
ItemBadUrl == RawItem(TRUE, "D", "custom", "m", "", "not a url")
ItemInvalid == RawItem(TRUE, "E", "", "m", "k", "")
ItemBlankModel == RawItem(TRUE, "F", "openai", " ", "k", "")
RawItems == {ItemA, ItemB, ItemA2, ItemNoKey, ItemBadUrl, ItemInvalid}

\* the sequences over S of length lo..hi
SeqsOf(S, lo, hi) == UNION {[1..n -> S] : n \in lo..hi}

RoundInputs ==
    {Absent, Num(-1), Num(0), Num(1), Num(2), Num(5), Num(7),
     Half(-1), Half(0), Half(1), Half(5), Text}

BrainstormArgs(req, ps, rounds, by) ==
    [requirement |-> req, participants |-> ps, debate_rounds |-> rounds, synthesis_by |-> by]

OneShotArgs(model, prompt) == [model |-> model, prompt |-> prompt]

\* the raw participants whose calls can return
LiveItems == {ItemA, ItemB, ItemA2, ItemNoKey}

\* the model.brainstorm calls, one per stream: every list of raw participants
\* with no round and with the default round, the lists of live participants
\* with two rounds, and every debate_rounds on a single participant
WideBrainstormArgs ==
    {BrainstormArgs("req", ps, r, by) :
        ps \in SeqsOf(RawItems, 1, MaxParticipants), r \in {Absent, Num(-1), Num(0)}, by \in {"", "B"}}
    \cup {BrainstormArgs("req", ps, Num(2), by) :
        ps \in SeqsOf(LiveItems, 1, MaxParticipants), by \in {"", "B", "Z"}}
    \cup {BrainstormArgs("req", <<x>>, r, "") : x \in RawItems, r \in RoundInputs}
    \cup {BrainstormArgs("req", ps, Num(-1), "") :
            ps \in {<<ItemBlankModel, ItemNoKey>>,
                    <<RawItem(FALSE, "", "", "", "", ""), ItemNoKey>>}}
    \cup {BrainstormArgs(req, <<x>>, Absent, "") :
            req \in {"", " "}, x \in {ItemA, ItemBlankModel}}
    \cup {BrainstormArgs("req", ps, Absent, "") :
            ps \in SeqsOf({ItemInvalid, ItemBlankModel, RawItem(FALSE, "", "", "", "", "")},
                          0, MaxParticipants)}

\* every provider, with and without credential and api_url
OneShotModels ==
    {RawItem(TRUE, "", p, "m", key, url) :
        p \in {"openai", "anthropic", "gemini", "custom", "cohere"},
        key \in {"", "k"},
        url \in {"", "https://ok", "not a url", "ftp://host/x"}}
    \cup {RawItem(FALSE, "", "", "", "", ""), ItemBlankModel}

WideRouterMessages ==
    {Message("a", "tools/call", "model.brainstorm", a) : a \in WideBrainstormArgs}
    \cup {Message("a", "tools/call", "model.one_shot", OneShotArgs(m, p)) :
            m \in OneShotModels, p \in {"", " ", "p"}}

\* the tool calls of the longer streams
SmallRouterCalls ==
    {<<"", NoArgs>>, <<"no.such.tool", NoArgs>>, <<"claude.one_shot", NoArgs>>,
     <<"", OneShotArgs(ItemA, "p")>>,
     <<"model.one_shot", OneShotArgs(ItemA, "p")>>,
     <<"model.one_shot", OneShotArgs(ItemBadUrl, "p")>>,
     <<"model.brainstorm", BrainstormArgs("", <<ItemA>>, Absent, "")>>,
     <<"model.brainstorm", BrainstormArgs("req", <<ItemInvalid>>, Absent, "")>>,
     <<"model.brainstorm", BrainstormArgs("req", <<ItemB>>, Absent, "")>>}

\* every method with every id, every tool call with an id, and tool calls
\* without an id
SmallRouterMessages ==
    {Message(id, m, "", NoArgs) : id \in Ids, m \in Methods \ {"tools/call"}}
    \cup {Message("a", "tools/call", c[1], c[2]) : c \in SmallRouterCalls}
    \cup {Message(NoId, "tools/call", c[1], c[2]) :
            c \in {<<"", NoArgs>>, <<"no.such.tool", NoArgs>>,
                   <<"model.one_shot", OneShotArgs(ItemBadUrl, "p")>>}}

RouterStreams ==
    SeqsOf(SmallRouterMessages, 0, MaxRequests) \cup {<<m>> : m \in WideRouterMessages}

\* ----------------------------------------------------------------------- paths
\* A path segment is the sequence of its characters, a path string the
\* sequence of the characters of its segments joined by "/".
SegW == <<"w">>                   \* workspace
SegWOther == <<"w", "-", "o">>    \* workspace-other
SegSub == <<"s">>                 \* sub
SegEtc == <<"e">>                 \* etc
DotDot == <<".", ".">>            \* ..
SegDotsCache == <<".", ".", "c">> \* ..cache, an ordinary name
Segments == {SegW, SegWOther, SegSub, SegEtc, DotDot, SegDotsCache}

\* a path as the caller writes it: absolute or relative, segments not resolved
RawPath(abs, segs) == [abs |-> abs, segs |-> segs]
NoPath == RawPath(FALSE, << >>)   \* "" or undefined

\* the segments of an absolute path with its ".." segments resolved
RECURSIVE Normalize(_, _)
Normalize(done, rest) ==
    IF rest = << >> THEN done
    ELSE IF Head(rest) = DotDot
         THEN Normalize(IF done = << >> THEN << >> ELSE SubSeq(done, 1, Len(done) - 1), Tail(rest))
         ELSE Normalize(Append(done, Head(rest)), Tail(rest))

\* path.resolve(raw) in a process whose working directory is base
Resolve(base, raw) ==
    IF raw.abs THEN Normalize(<< >>, raw.segs) ELSE Normalize(base, raw.segs)

\* segments joined by "/"
RECURSIVE Join(_)
Join(segs) ==
    IF segs = << >> THEN << >>
    ELSE IF Len(segs) = 1 THEN segs[1]
    ELSE segs[1] \o <<"/">> \o Join(Tail(segs))

\* the string of an absolute path
PathString(segs) == <<"/">> \o Join(segs)

StartsWith(str, prefix) ==
    /\ Len(str) >= Len(prefix)
    /\ SubSeq(str, 1, Len(prefix)) = prefix

\* path.isAbsolute on a string
IsAbsolute(str) == str # << >> /\ str[1] = "/"

\* how many leading segments two resolved paths share
RECURSIVE CommonLen(_, _)
CommonLen(a, b) ==
    IF a = << >> \/ b = << >> \/ Head(a) # Head(b) THEN 0
    ELSE 1 + CommonLen(Tail(a), Tail(b))

\* path.relative(from, to) of two resolved absolute paths, as a string: one
\* ".." per segment of `from` below the common part, then the rest of `to`
Relative(from, to) ==
    LET c == CommonLen(from, to)
    IN  Join([j \in 1..(Len(from) - c) |-> DotDot] \o SubSeq(to, c + 1, Len(to)))

isUnder(root, target) ==
    LET rel == Relative(root, target)
    IN  rel = << >> \/ (~StartsWith(rel, <<".", ".">>) /\ ~IsAbsolute(rel))

\* a validateCwd that takes the process's own directory without the check
validateCwdTrustsDefault(rawCwd, rootList, base) ==
    LET cwd == Resolve(base, rawCwd)
    IN  [ok |-> rawCwd = NoPath \/ \E j \in 1..Len(rootList) : isUnder(rootList[j], cwd),
         cwd |-> cwd]

\* validateCwd(rawCwd, roots) in a process whose working directory is base
validateCwd(rawCwd, rootList, base) ==
    LET cwd == Resolve(base, rawCwd)
    IN  [ok |-> \E j \in 1..Len(rootList) : isUnder(rootList[j], cwd), cwd |-> cwd]

\* parseAllowedRoots(): env is the comma-separated value, split; a blank entry
\* is NoPath and is filtered out; no entry left means [process.cwd()]
RECURSIVE ResolveAll(_, _)
ResolveAll(entries, base) ==
    IF entries = << >> THEN << >>
    ELSE IF Head(entries) = NoPath THEN ResolveAll(Tail(entries), base)
    ELSE <<Resolve(base, Head(entries))>> \o ResolveAll(Tail(entries), base)

\* a parseAllowedRoots without its last line
ParseWithoutDefault(env, base) == ResolveAll(env, base)

parseAllowedRoots(env, base) ==
    IF ResolveAll(env, base) # << >> THEN ResolveAll(env, base) ELSE <<base>>

\* ------------------------------------------------------------------- framing
\* A stream is a sequence of bytes. A byte is B(c) for a character c; the
\* name of a header field stands in one byte, and so does the text between
\* the braces of a message's JSON text (J(m) for the message m).
MaxPayload == 2        \* longest of the short payloads a host frames
MaxFrames == 2         \* frames of a stream that is given byte by byte

B(c) == [c |-> c]
J(m) == [c |-> "json", m |-> m]
CR == B("\r")
LF == B("\n")
Colon == B(":")
Space == B(" ")
CrLfCrLf == <<CR, LF, CR, LF>>

DigitChars == <<"0", "1", "2", "3", "4", "5", "6", "7", "8", "9">>

\* the decimal digits of a length, as template literals print it
RECURSIVE Digits(_)
Digits(n) ==
    IF n < 10 THEN <<B(DigitChars[n + 1])>>
    ELSE Digits(n \div 10) \o <<B(DigitChars[(n % 10) + 1])>>

\* JSON.stringify(data) for a message object
Stringify(m) == <<B("{"), J(m), B("}")>>

\* Buffer.from(`Content-Length: ${body.length}\r\n\r\n`, "ascii")
WriteHeader(n) == <<B("Content-Length"), Colon, Space>> \o Digits(n) \o CrLfCrLf

\* writeMessage: the header for the body's length, then the body
writeMessage(body) == WriteHeader(Len(body)) \o body

\* String.prototype.trim on bytes: from the first byte that is no space to
\* the last one
TrimBytes(s) ==
    LET solid == {p \in 1..Len(s) : s[p] # Space}
    IN  IF solid = {} THEN << >>
        ELSE SubSeq(s, CHOOSE p \in solid : \A q \in solid : p <= q,
                       CHOOSE p \in solid : \A q \in solid : q <= p)

\* toLowerCase on the name of a header field
LowerKey(key) == IF key = <<B("Content-Length")>> THEN <<B("content-length")>> ELSE key

\* headerRaw.split("\r\n"): the positions at which a "\r\n" begins, the
\* positions at which a piece begins, and the piece that begins at a
LineBreaks(s) == {p \in 1..(Len(s) - 1) : s[p] = CR /\ s[p + 1] = LF}
LineStarts(s) == {1} \cup {p + 2 : p \in LineBreaks(s)}
LineAt(s, a) ==
    LET after == {p \in LineBreaks(s) : p >= a}
    IN  IF after = {} THEN SubSeq(s, a, Len(s))
        ELSE SubSeq(s, a, (CHOOSE p \in after : \A q \in after : p <= q) - 1)

\* line.indexOf(":"), counted from 1; 0 when the line has no colon
IndexOfColon(line) ==
    IF \E p \in 1..Len(line) : line[p] = Colon
    THEN CHOOSE p \in 1..Len(line) : line[p] = Colon /\ \A q \in 1..(p - 1) : line[q] # Colon
    ELSE 0

\* the line sets headerMap["content-length"]: it is not empty (filter(Boolean)),
\* its colon is not its first character (idx > 0) and the text before the
\* colon, trimmed and in lower case, is content-length
SetsContentLength(line) ==
    /\ line # << >>
    /\ IndexOfColon(line) > 1
    /\ LowerKey(TrimBytes(SubSeq(line, 1, IndexOfColon(line) - 1))) = <<B("content-length")>>

\* headerMap["content-length"] after the loop over the lines: the trimmed
\* text after the colon of the last line that sets it; << >> when none does
ContentLengthOf(s) ==
    LET setters == {a \in LineStarts(s) : SetsContentLength(LineAt(s, a))}
    IN  IF setters = {} THEN << >>
        ELSE LET line == LineAt(s, CHOOSE a \in setters : \A b \in setters : b <= a)
             IN  TrimBytes(SubSeq(line, IndexOfColon(line) + 1, Len(line)))

IsDigit(b) == \E d \in 1..10 : b = B(DigitChars[d])
DigitValue(b) == (CHOOSE d \in 1..10 : b = B(DigitChars[d])) - 1

\* the value of a run of digits
Decimal(s) ==
    LET value[i \in 0..Len(s)] == IF i = 0 THEN 0 ELSE 10 * value[i - 1] + DigitValue(s[i])
    IN  value[Len(s)]

NaN == [nan |-> TRUE, v |-> 0]
Finite(v) == [nan |-> FALSE, v |-> v]

\* Number(str) on the strings of the model: "" is 0, a run of digits its
\* value, a minus sign before one the negative value, anything else NaN
Number(str) ==
    LET s == TrimBytes(str)
    IN  IF s = << >> THEN Finite(0)
        ELSE IF \A p \in 1..Len(s) : IsDigit(s[p]) THEN Finite(Decimal(s))
        ELSE IF Len(s) >= 2 /\ s[1] = B("-") /\ \A p \in 2..Len(s) : IsDigit(s[p])
             THEN Finite(0 - Decimal(Tail(s)))
        ELSE NaN

\* where the byte-by-byte loop stops: the first position at which the bytes
\* read so far end with "\r\n\r\n"; 0 when the stream ends before
HeaderEnd(s) ==
    IF \E i \in 4..Len(s) : SubSeq(s, i - 3, i) = CrLfCrLf
    THEN CHOOSE i \in 4..Len(s) :
            /\ SubSeq(s, i - 3, i) = CrLfCrLf
            /\ \A h \in 4..(i - 1) : SubSeq(s, h - 3, h) # CrLfCrLf
    ELSE 0

\* a JSON text without the white space JSON allows around its tokens
NotSpace(b) == b # Space
Unspaced(s) == SelectSeq(s, NotSpace)

\* what readMessageSync gives: a message object, a JSON value that is no
\* object (0 or null), null for "no message", or an exception
Got(kind, m, rest) == [kind |-> kind, msg |-> m, rest |-> rest]

\* JSON.parse(body.toString("utf-8")) on the bodies of the model
JsonParse(body, rest) ==
    LET t == Unspaced(body)
    IN  IF t = <<B("{"), B("}")>> THEN Got("object", NoMsg, rest)
        ELSE IF Len(t) = 3 /\ t[1] = B("{") /\ t[3] = B("}") /\ t[2].c = "json"
             THEN Got("object", t[2].m, rest)
        ELSE IF t = <<B("0")>> THEN Got("zero", NoMsg, rest)
        ELSE IF t = <<B("n"), B("u"), B("l"), B("l")>> THEN Got("null", NoMsg, rest)
        ELSE Got("throw", NoMsg, rest)

\* a readExactSync that returns the bytes it got when the stream ends early
ReadBodyPartial(len, s) ==
    IF len < 0 THEN Got("throw", NoMsg, s)
    ELSE IF Len(s) < len THEN JsonParse(s, << >>)
    ELSE JsonParse(SubSeq(s, 1, len), SubSeq(s, len + 1, Len(s)))

\* readExactSync(total) followed by the parse: Buffer.alloc raises on a
\* negative size, and the stream ending before `total` bytes gives null
ReadBody(len, s) ==
    IF len < 0 THEN Got("throw", NoMsg, s)
    ELSE IF Len(s) < len THEN Got("null", NoMsg, << >>)
    ELSE JsonParse(SubSeq(s, 1, len), SubSeq(s, len + 1, Len(s)))

readMessageSync(s) ==
    LET e == HeaderEnd(s)
    IN  IF e = 0 THEN Got("null", NoMsg, << >>)
        ELSE LET value == ContentLengthOf(SubSeq(s, 1, e))
                 len == Number(IF value = << >> THEN <<B("0")>> ELSE value)
                 rest == SubSeq(s, e + 1, Len(s))
             IN  IF len.nan \/ len.v = 0 THEN Got("null", NoMsg, rest)
                 ELSE ReadBody(len.v, rest)

\* what the successive calls of readMessageSync() give on a stream, up to the
\* first call that gives no message: every call reads on from where the call
\* before it stopped
RECURSIVE ReadAll(_)
ReadAll(s) ==
    LET g == readMessageSync(s)
    IN  IF g.kind \in {"object", "throw"} THEN <<g>> \o ReadAll(g.rest) ELSE <<g>>

\* ------------------------------------------------------------------ the host
\* What the host of a server process puts on its input stream: the header
\* and the body of every frame, and how many bytes it delivers before it
\* closes the stream.
RECURSIVE Wire(_, _)
Wire(heads, bodies) ==
    IF heads = << >> THEN << >>
    ELSE Head(heads) \o Head(bodies) \o Wire(Tail(heads), Tail(bodies))

Host(heads, bodies, cut) == [heads |-> heads, bodies |-> bodies, cut |-> cut]

\* a host that frames every payload as writeMessage does and then closes
Framed(bodies) ==
    LET heads == [i \in 1..Len(bodies) |-> WriteHeader(Len(bodies[i]))]
    IN  Host(heads, bodies, Len(Wire(heads, bodies)))

\* the bytes a server process finds on its input stream
Delivered(h) == SubSeq(Wire(h.heads, h.bodies), 1, h.cut)

\* the bytes of the frames of h from the n-th on
WireFrom(h, n) == Wire(SubSeq(h.heads, n, Len(h.heads)), SubSeq(h.bodies, n, Len(h.bodies)))

\* every frame of h is what writeMessage writes for its body, and the host
\* delivers all of them
WellFramed(h) ==
    /\ \A i \in 1..Len(h.bodies) : h.heads[i] = WriteHeader(Len(h.bodies[i]))
    /\ h.cut = Len(Wire(h.heads, h.bodies))

PingA == Message("a", "ping", "", NoArgs)
ListB == Message("b", "tools/list", "", NoArgs)

NullText == <<B("n"), B("u"), B("l"), B("l")>>
PaddedObject == <<B("{")>> \o [i \in 1..8 |-> Space] \o <<B("}")>>

\* the payloads of at most MaxPayload bytes, the JSON text null, an object
\* text of ten bytes and the text of a message
ShortPayloads ==
    SeqsOf({B("{"), B("}"), B("0")}, 0, MaxPayload)
    \cup {NullText, PaddedObject, Stringify(PingA)}

\* the headers a host may put before a body, besides writeMessage's
OtherHeads(body) ==
    {<<B("X-Other"), Colon, Space, B("1")>> \o CrLfCrLf,
     CrLfCrLf,
     <<B("Content-Length"), Colon, Space>> \o CrLfCrLf,
     <<B("Content-Length"), Colon, Space, B("0")>> \o CrLfCrLf,
     <<B("Content-Length"), Colon, Space, B("x")>> \o CrLfCrLf,
     <<B("Content-Length"), Colon, Space, B("-"), B("1")>> \o CrLfCrLf,
     <<B("Content-Length"), Colon, Space, B("9")>> \o CrLfCrLf,
     <<B("Content-Length"), Colon, Space, B("2")>> \o CrLfCrLf,
     <<B("X-Other"), Colon, B("1"), CR, LF, B("content-length"), Space, Colon>>
        \o Digits(Len(body)) \o <<Space>> \o CrLfCrLf}

\* a frame as a pair of header and body
GoodFrames == {<<WriteHeader(3), Stringify(m)>> : m \in {PingA, ListB}}
OtherFrames == {<<h, Stringify(PingA)>> : h \in OtherHeads(Stringify(PingA))}
                  \cup {<<h, << >> >> : h \in OtherHeads(<< >>)}

HostOf(frames, cut) ==
    Host([i \in 1..Len(frames) |-> frames[i][1]], [i \in 1..Len(frames) |-> frames[i][2]], cut)

FullLen(frames) == Len(Wire([i \in 1..Len(frames) |-> frames[i][1]], [i \in 1..Len(frames) |-> frames[i][2]]))

\* the streams given byte by byte: short payloads framed by writeMessage,
\* well-formed frames cut at every position, and frames under other headers
WireHosts ==
    {Framed(ps) : ps \in SeqsOf(ShortPayloads, 1, MaxFrames)}
    \cup UNION {{HostOf(fs, cut) : cut \in 0..FullLen(fs)} : fs \in SeqsOf(GoodFrames, 1, MaxFrames)}
    \cup {HostOf(fs, FullLen(fs)) : fs \in SeqsOf(GoodFrames \cup OtherFrames, 1, MaxFrames)}

\* the streams of well-formed messages
HostsOf(streams) == {Framed([i \in 1..Len(st) |-> Stringify(st[i])]) : st \in streams}

\* ---------------------------------------------------------------------- state
VARIABLES
    server,        \* which of the two servers this process is
    host,          \* what the host puts on the input stream (history)
    stdin,         \* the bytes of the input stream not read yet
    inbox,         \* what main's coming calls of readMessageSync() give: ReadAll(stdin)
    got,           \* how main's last readMessageSync() ended: "object", "zero", "null" or "throw"
    pc,            \* where main / handleRequest / the running tool stands
    msg,           \* main's msg
    msgNo,         \* how many messages main has read (history)
    out,           \* the frames written to stdout, in order
    participants,  \* runBrainstorm's locals
    debateRounds,
    synthesisBy,
    proposals,
    errors,
    debates,
    latestInputs,
    responses,
    round,         \* the debate loop's i
    k,             \* the position of the participant loop in `participants`
    synth,         \* the result of the synthesis call
    pending,       \* the gateway calls whose HTTP request is in flight
    log,           \* the gateway calls of the running tool: issue and end events (history)
    fails,         \* the HTTP requests the backends have failed so far
    idle,          \* whether the pending request's socket has been silent since its timer was armed
    toolResult,    \* the ToolResult callTool returned for msg (history)
    env,           \* CLAUDE_RUNNER_ALLOWED_ROOTS, split at its commas
    procCwd,       \* process.cwd()
    roots,         \* main's roots
    validation,    \* callTool's validation
    child,         \* the subprocess of runClaude
    timer,         \* whether runClaude's timer is armed
    timedOut,      \* runClaude's timedOut
    run,           \* what runClaude resolved with
    spawns,        \* the subprocesses spawned so far, each with its cwd (history)
    reads          \* the chunks appendFilesContext made of context files so far (history)

mainVars == <<server, host, stdin, inbox, got, pc, msg, msgNo, out, toolResult>>
brainVars == <<participants, debateRounds, synthesisBy, proposals, errors, debates,
               latestInputs, responses, round, k, synth>>
callVars == <<pending, log, fails, idle>>
runnerVars == <<env, procCwd, roots, validation, child, timer, timedOut, run, spawns, reads>>
vars == <<mainVars, brainVars, callVars, runnerVars>>

NoValidation == [ok |-> FALSE, cwd |-> << >>, set |-> FALSE]
NoRun == [set |-> FALSE, exitCode |-> 0, timedOut |-> FALSE]

NoResult == [set |-> FALSE, isError |-> FALSE, why |-> ""]
ToolResult(isError, why) == [set |-> TRUE, isError |-> isError, why |-> why]
NoSynth == [code |-> -1, text |-> NoText, who |-> 0]

\* runBrainstorm's locals before the function is entered
BrainBlank ==
    /\ participants = << >>
    /\ debateRounds = Num(0)
    /\ synthesisBy = ""
    /\ proposals = << >>
    /\ errors = << >>
    /\ debates = << >>
    /\ latestInputs = << >>
    /\ responses = << >>
    /\ round = 0
    /\ k = 0
    /\ synth = NoSynth

\* the locals are out of scope between two calls of runBrainstorm; the three
\* a report is made of keep what the last call left in them until the
\* declarations of the next call run (const proposals = {}, const errors = [],
\* const debates = [])
ResetLocals ==
    /\ participants' = << >>
    /\ debateRounds' = Num(0)
    /\ synthesisBy' = ""
    /\ UNCHANGED <<proposals, errors, debates>>
    /\ latestInputs' = << >>
    /\ responses' = << >>
    /\ round' = 0
    /\ k' = 0
    /\ synth' = NoSynth

\* the state both servers start in
InitCommon ==
    /\ pc = "start"
    /\ stdin = Delivered(host)
    /\ inbox = ReadAll(Delivered(host))
    /\ got = "none"
    /\ msg = NoMsg
    /\ msgNo = 0
    /\ out = << >>
    /\ toolResult = NoResult
    /\ BrainBlank
    /\ pending = {}
    /\ log = << >>
    /\ fails = 0
    /\ idle = TRUE
    /\ roots = << >>
    /\ validation = NoValidation
    /\ child = "none"
    /\ timer = FALSE
    /\ timedOut = FALSE
    /\ run = NoRun
    /\ spawns = << >>
    /\ reads = {}

InitRouter ==
    /\ server = "router"
    /\ host \in HostsOf(RouterStreams) \cup WireHosts
    /\ env = << >>
    /\ procCwd = << >>
    /\ InitCommon

\* ------------------------------------------------------------------------ main
\* the frame of writeMessage(notification("server/ready", ...))
ReadyFrame == [for |-> 0, id |-> NoId, kind |-> "notification", code |-> 0, tool |-> FALSE, isError |-> FALSE]

\* main of model-router, up to its loop
RouterStart ==
    /\ pc = "start" /\ server = "router"
    /\ out' = Append(out, ReadyFrame)
    /\ pc' = "read"
    /\ UNCHANGED <<runnerVars, server, host, stdin, inbox, got, msg, msgNo, toolResult, brainVars, callVars>>

\* const msg = readMessageSync() gives a message object
ReadMessage ==
    /\ pc = "read"
    /\ Head(inbox).kind = "object"
    /\ msg' = Head(inbox).msg
    /\ stdin' = Head(inbox).rest
    /\ inbox' = Tail(inbox)
    /\ got' = "object"
    /\ msgNo' = msgNo + 1
    /\ pc' = "handle"
    /\ toolResult' = NoResult
    /\ ResetLocals
    /\ log' = << >>
    /\ validation' = NoValidation
    /\ run' = NoRun
    /\ UNCHANGED <<server, host, out, pending, fails, idle, env, procCwd, roots, child, timer,
                   timedOut, spawns, reads>>

\* the id of the error frame of the top-level catch: null
NullId == "null"

\* if (!msg) return: readMessageSync() gave null, or a JSON value that is
\* falsy, and main returns
EndOfStream ==
    /\ pc = "read"
    /\ Head(inbox).kind \in {"null", "zero"}
    /\ got' = Head(inbox).kind
    /\ stdin' = Head(inbox).rest
    /\ inbox' = Tail(inbox)
    /\ pc' = "exited"
    /\ UNCHANGED <<runnerVars, server, host, msg, msgNo, out, toolResult, brainVars, callVars>>

\* a main that answers a failed read and reads on
ReadFailsAndGoesOn ==
    /\ pc = "read"
    /\ Head(inbox).kind = "throw"
    /\ got' = "throw"
    /\ stdin' = Head(inbox).rest
    /\ inbox' = Tail(inbox)
    /\ out' = Append(out, errorResponse(0, NullId, -32000))
    /\ pc' = "read"
    /\ UNCHANGED <<runnerVars, server, host, msg, msgNo, toolResult, brainVars, callVars>>

\* readMessageSync() raises outside main's try block: main's promise is
\* rejected and the top-level catch writes errorResponse(null, -32000, ...)
ReadFails ==
    /\ pc = "read"
    /\ Head(inbox).kind = "throw"
    /\ got' = "throw"
    /\ stdin' = Head(inbox).rest
    /\ inbox' = Tail(inbox)
    /\ out' = Append(out, errorResponse(0, NullId, -32000))
    /\ pc' = "failed"
    /\ UNCHANGED <<runnerVars, server, host, msg, msgNo, toolResult, brainVars, callVars>>

\* writeMessage(response) at the end of the try block, then the next iteration
Respond(frame) ==
    /\ out' = Append(out, frame)
    /\ pc' = "read"

\* handleRequest returned null: nothing is written
NoResponse ==
    /\ out' = out
    /\ pc' = "read"

\* a catch block that reports the error and lets main return
CatchErrorLeavesLoop ==
    /\ IF msg.id # NoId
       THEN out' = Append(out, errorResponse(msgNo, msg.id, -32000))
       ELSE out' = out
    /\ pc' = "exited"

\* the catch block of main's loop
CatchError ==
    /\ IF msg.id # NoId
       THEN out' = Append(out, errorResponse(msgNo, msg.id, -32000))
       ELSE out' = out
    /\ pc' = "read"

\* --------------------------------------------------------------- handleRequest
HandleInitialize ==
    /\ pc = "handle"
    /\ msg.method = "initialize"
    /\ Respond(successResponse(msgNo, msg.id, FALSE, FALSE))
    /\ UNCHANGED <<runnerVars, server, host, stdin, inbox, got, msg, msgNo, toolResult, brainVars, callVars>>

HandleToolsList ==
    /\ pc = "handle"
    /\ msg.method = "tools/list"
    /\ Respond(successResponse(msgNo, msg.id, FALSE, FALSE))
    /\ UNCHANGED <<runnerVars, server, host, stdin, inbox, got, msg, msgNo, toolResult, brainVars, callVars>>

HandlePing ==
    /\ pc = "handle"
    /\ msg.method = "ping"
    /\ Respond(successResponse(msgNo, msg.id, FALSE, FALSE))
    /\ UNCHANGED <<runnerVars, server, host, stdin, inbox, got, msg, msgNo, toolResult, brainVars, callVars>>

HandleInitialized ==
    /\ pc = "handle"
    /\ msg.method \in {"notifications/initialized", "initialized"}
    /\ NoResponse
    /\ UNCHANGED <<runnerVars, server, host, stdin, inbox, got, msg, msgNo, toolResult, brainVars, callVars>>

KnownMethods == {"initialize", "tools/list", "tools/call", "ping",
                 "notifications/initialized", "initialized"}

\* an unknown method answered with -32601 whether or not the message has an id
HandleOtherMethodAlwaysAnswers ==
    /\ pc = "handle"
    /\ msg.method \notin KnownMethods
    /\ Respond(errorResponse(msgNo, msg.id, -32601))
    /\ UNCHANGED <<runnerVars, server, host, stdin, inbox, got, msg, msgNo, toolResult, brainVars, callVars>>

HandleOtherMethod ==
    /\ pc = "handle"
    /\ msg.method \notin KnownMethods
    /\ IF msg.id # NoId
       THEN Respond(errorResponse(msgNo, msg.id, -32601))
       ELSE NoResponse
    /\ UNCHANGED <<runnerVars, server, host, stdin, inbox, got, msg, msgNo, toolResult, brainVars, callVars>>

\* a tools/call without a tool name that is handed to callTool
HandleCallNoNameAsTool ==
    /\ pc = "handle"
    /\ msg.method = "tools/call"
    /\ msg.name = ""
    /\ toolResult' = [set |-> TRUE, isError |-> TRUE, why |-> "unknown tool"]
    /\ Respond(successResponse(msgNo, msg.id, TRUE, TRUE))
    /\ UNCHANGED <<runnerVars, server, host, stdin, inbox, got, msg, msgNo, brainVars, callVars>>

\* tools/call without a tool name
HandleCallNoName ==
    /\ pc = "handle"
    /\ msg.method = "tools/call"
    /\ msg.name = ""
    /\ Respond(errorResponse(msgNo, msg.id, -32602))
    /\ UNCHANGED <<runnerVars, server, host, stdin, inbox, got, msg, msgNo, toolResult, brainVars, callVars>>

\* return successResponse(id, result) for the ToolResult of callTool
ReturnTool(isError, why) ==
    /\ toolResult' = ToolResult(isError, why)
    /\ Respond(successResponse(msgNo, msg.id, TRUE, isError))

\* callTool(name, argumentsObj) is entered in server srv
ToolCall(srv, name) ==
    /\ pc = "handle" /\ server = srv
    /\ msg.method = "tools/call"
    /\ msg.name # ""
    /\ msg.name = name

\* -------------------------------------------------------------------- callTool
RouterTools == {"model.one_shot", "model.brainstorm"}

\* a callTool whose last return reports no error
CallToolUnknownNoError ==
    /\ pc = "handle" /\ server = "router"
    /\ msg.method = "tools/call"
    /\ msg.name # ""
    /\ msg.name \notin RouterTools
    /\ ReturnTool(FALSE, "unknown tool")
    /\ UNCHANGED <<runnerVars, server, host, stdin, inbox, got, msg, msgNo, brainVars, callVars>>

CallToolUnknown ==
    /\ pc = "handle" /\ server = "router"
    /\ msg.method = "tools/call"
    /\ msg.name # ""
    /\ msg.name \notin RouterTools
    /\ ReturnTool(TRUE, "unknown tool")
    /\ UNCHANGED <<runnerVars, server, host, stdin, inbox, got, msg, msgNo, brainVars, callVars>>

\* --------------------------------------------------------- the gateway calls
Call(stage, rnd, who, id, input) ==
    [stage |-> stage, round |-> rnd, who |-> who, id |-> id, input |-> input]

Event(ev, call, code) == [ev |-> ev, call |-> call, code |-> code]

\* callModel returns `result` to its caller
EndEvent(call, result) ==
    [ev |-> "end", call |-> call, code |-> result.code, what |-> result.text.what]

\* the ModelSpec a call was made with
SpecOf(call) ==
    IF call.stage = "oneshot" THEN toModelSpec(Arg(msg.args, "model", RawItem(FALSE, "", "", "", "", "")), "model_1")
    ELSE participants[call.who]

\* a proposal loop that does not wait for its call
NoAwaitInProposals(stage) == IF stage = "proposal" THEN "proposal" ELSE "await"

\* a caller that hands control back to main's loop instead of waiting
AwaitReturnsToLoop(stage) == "read"

\* where the caller stands while `await callModel(...)` is pending
AwaitPc(stage) == "await"

\* the statements after `await callModel(...)` in the caller, for the call's result
Deliver(call, result, lg) ==
    /\ log' = Append(lg, EndEvent(call, result))
    /\ \/ /\ call.stage = "proposal"
          /\ errors' = IF result.code # 0 THEN Append(errors, ErrorEntry(call, result)) ELSE errors
          /\ proposals' = Put(proposals, call.id, StageEntry(call, result))
          /\ k' = k + 1
          /\ pc' = "proposal"
          /\ UNCHANGED <<out, toolResult, responses, synth>>
       \/ /\ call.stage = "debate"
          /\ errors' = IF result.code # 0 THEN Append(errors, ErrorEntry(call, result)) ELSE errors
          /\ responses' = Put(responses, call.id, StageEntry(call, result))
          /\ k' = k + 1
          /\ pc' = "debate"
          /\ UNCHANGED <<out, toolResult, proposals, synth>>
       \/ /\ call.stage = "synthesis"
          /\ errors' = IF result.code # 0 THEN Append(errors, ErrorEntry(call, result)) ELSE errors
          /\ synth' = [code |-> result.code, text |-> result.text, who |-> call.who]
          /\ pc' = "return"
          /\ UNCHANGED <<out, toolResult, proposals, responses, k>>
       \/ /\ call.stage = "oneshot"
          /\ ReturnTool(result.code # 0, "one_shot")
          /\ UNCHANGED <<errors, proposals, responses, synth, k>>
    /\ UNCHANGED <<runnerVars, server, host, stdin, inbox, got, msg, msgNo, participants,
                   debateRounds, synthesisBy,
                   debates, latestInputs, round>>

\* await callModel(spec, ...): the early return of code 2, the exception of
\* httpPostJson, or the HTTP request going out
IssueCall(call) ==
    LET begin == CallModelBegin(SpecOf(call))
        lg == Append(log, Event("call", call, 0))
    IN  \/ /\ begin = "code2"
           /\ Deliver(call, Code2Result, lg)
           /\ UNCHANGED <<pending, fails, idle>>
        \/ /\ begin = "raise"
           /\ log' = Append(lg, Event("raise", call, 0))
           /\ CatchError
           /\ UNCHANGED <<runnerVars, server, host, stdin, inbox, got, msg, msgNo, toolResult,
                          brainVars, pending, fails, idle>>
        \/ /\ begin = "http"
           /\ log' = Append(lg, Event("http", call, 0))
           /\ pending' = pending \cup {call}
           /\ pc' = AwaitPc(call.stage)
           /\ idle' = TRUE
           /\ UNCHANGED <<runnerVars, server, host, stdin, inbox, got, msg, msgNo, out, toolResult,
                          brainVars, fails>>

\* httpPostJson resolves: res.on("end") with the response's status, or
\* req.on("error") with status 0 for a connection error
HttpResponse ==
    \E call \in pending, status \in HttpStatuses, ws \in BOOLEAN :
        /\ HttpFailed(status) => fails < MaxFail
        /\ fails' = IF HttpFailed(status) THEN fails + 1 ELSE fails
        /\ pending' = pending \ {call}
        /\ idle' = TRUE
        /\ Deliver(call, CallModelPost(SpecOf(call), status, ws),
                   Append(log, Event("status", call, status)))

\* req.setTimeout(timeoutSec * 1000, ...) arms the socket's inactivity timer:
\* bytes that arrive on the socket (headers, a chunk of the body) start it
\* afresh; nothing is resolved by them
HttpData ==
    /\ pending # {}
    /\ idle
    /\ idle' = FALSE
    /\ UNCHANGED <<mainVars, brainVars, runnerVars, pending, log, fails>>

\* the socket falls silent again
HttpSilence ==
    /\ pending # {}
    /\ ~idle
    /\ idle' = TRUE
    /\ UNCHANGED <<mainVars, brainVars, runnerVars, pending, log, fails>>

\* the socket stayed silent for timeoutSec: the timer's callback runs
\* req.destroy(new Error("Request timed out ...")), req.on("error") resolves
\* with status 0
HttpTimeout ==
    \E call \in pending :
        /\ idle
        /\ fails < MaxFail
        /\ fails' = fails + 1
        /\ pending' = pending \ {call}
        /\ idle' = TRUE
        /\ Deliver(call, CallModelPost(SpecOf(call), 0, FALSE),
                   Append(log, Event("status", call, 0)))

\* ------------------------------------------------------------- model.one_shot
OneShotInvalid ==
    /\ ToolCall("router", "model.one_shot")
    /\ \/ toModelSpec(Arg(msg.args, "model", RawItem(FALSE, "", "", "", "", "")), "model_1").null
       \/ Required(msg.args, "prompt") = ""
    /\ ReturnTool(TRUE, "invalid")
    /\ UNCHANGED <<runnerVars, server, host, stdin, inbox, got, msg, msgNo, brainVars, callVars>>

OneShotCall ==
    /\ ToolCall("router", "model.one_shot")
    /\ ~toModelSpec(Arg(msg.args, "model", RawItem(FALSE, "", "", "", "", "")), "model_1").null
    /\ Required(msg.args, "prompt") # ""
    /\ IssueCall(Call("oneshot", 0, 0, "", << >>))

\* ------------------------------------------------------------ model.brainstorm
BrainstormNoRequirement ==
    /\ ToolCall("router", "model.brainstorm")
    /\ Required(msg.args, "requirement") = ""
    /\ ReturnTool(TRUE, "requirement")
    /\ UNCHANGED <<runnerVars, server, host, stdin, inbox, got, msg, msgNo, brainVars, callVars>>

BrainstormNoParticipants ==
    /\ ToolCall("router", "model.brainstorm")
    /\ Required(msg.args, "requirement") # ""
    /\ CollectParticipants(Arg(msg.args, "participants", << >>), 1) = << >>
    /\ ReturnTool(TRUE, "participants")
    /\ UNCHANGED <<runnerVars, server, host, stdin, inbox, got, msg, msgNo, brainVars, callVars>>

\* a runBrainstorm whose error log is declared outside the function
BrainstormStartSharedErrors ==
    /\ ToolCall("router", "model.brainstorm")
    /\ Required(msg.args, "requirement") # ""
    /\ LET ps == CollectParticipants(Arg(msg.args, "participants", << >>), 1)
       IN  /\ ps # << >>
           /\ participants' = ps
           /\ debateRounds' = DebateRounds(Arg(msg.args, "debate_rounds", Absent))
           /\ synthesisBy' = SynthesisBy(Arg(msg.args, "synthesis_by", ""), ps)
    /\ proposals' = << >>
    /\ errors' = errors
    /\ k' = 1
    /\ pc' = "proposal"
    /\ UNCHANGED <<runnerVars, server, host, stdin, inbox, got, msg, msgNo, out, toolResult,
                   debates, latestInputs,
                   responses, round, synth, callVars>>

\* the locals of runBrainstorm, up to the first proposal call
BrainstormStart ==
    /\ ToolCall("router", "model.brainstorm")
    /\ Required(msg.args, "requirement") # ""
    /\ LET ps == CollectParticipants(Arg(msg.args, "participants", << >>), 1)
       IN  /\ ps # << >>
           /\ participants' = ps
           /\ debateRounds' = DebateRounds(Arg(msg.args, "debate_rounds", Absent))
           /\ synthesisBy' = SynthesisBy(Arg(msg.args, "synthesis_by", ""), ps)
    /\ proposals' = << >>
    /\ errors' = << >>
    /\ k' = 1
    /\ pc' = "proposal"
    /\ UNCHANGED <<runnerVars, server, host, stdin, inbox, got, msg, msgNo, out, toolResult,
                   debates, latestInputs,
                   responses, round, synth, callVars>>

\* for (const model of participants) { ... await callModel(model, prompt, ...) }
ProposalCall ==
    /\ pc = "proposal"
    /\ k <= Len(participants)
    /\ IssueCall(Call("proposal", 0, k, participants[k].id, << >>))

\* the proposal loop is over: debates = [], latestInputs = { ...proposals }, i = 1
ProposalsDone ==
    /\ pc = "proposal"
    /\ k > Len(participants)
    /\ debates' = << >>
    /\ latestInputs' = proposals
    /\ round' = 1
    /\ pc' = "round"
    /\ UNCHANGED <<runnerVars, server, host, stdin, inbox, got, msg, msgNo, out, toolResult,
                   participants, debateRounds,
                   synthesisBy, proposals, errors, responses, k, synth, callVars>>

\* i <= debateRounds: const responses = {}
RoundStart ==
    /\ pc = "round"
    /\ LessEq(round, debateRounds)
    /\ responses' = << >>
    /\ k' = 1
    /\ pc' = "debate"
    /\ UNCHANGED <<runnerVars, server, host, stdin, inbox, got, msg, msgNo, out, toolResult,
                   participants, debateRounds,
                   synthesisBy, proposals, errors, debates, latestInputs, round, synth, callVars>>

\* others = the entries of latestInputs with k !== model.id; await callModel(model, ...)
DebateCall ==
    /\ pc = "debate"
    /\ k <= Len(participants)
    /\ IssueCall(Call("debate", round, k, participants[k].id,
                      Others(latestInputs, participants[k].id)))

\* debates.push({ round: i, responses }); latestInputs = responses; i += 1
RoundEnd ==
    /\ pc = "debate"
    /\ k > Len(participants)
    /\ debates' = Append(debates, [round |-> round, responses |-> responses])
    /\ latestInputs' = responses
    /\ round' = round + 1
    /\ pc' = "round"
    /\ UNCHANGED <<runnerVars, server, host, stdin, inbox, got, msg, msgNo, out, toolResult,
                   participants, debateRounds,
                   synthesisBy, proposals, errors, responses, k, synth, callVars>>

\* the debate loop is over: synthModel, await callModel(synthModel, synthPrompt, ...)
SynthesisCall ==
    /\ pc = "round"
    /\ ~LessEq(round, debateRounds)
    /\ LET who == SynthModel(participants, synthesisBy)
       IN  IssueCall(Call("synthesis", 0, who, participants[who].id, << >>))

\* the report's field synthesis_by: synthModel.id
ReportSynthesisBy == participants[SynthModel(participants, synthesisBy)].id

\* a report that leaves the text of a failed synthesis out
ReportSynthesisOnlyOnSuccess == IF synth.code # 0 THEN NoText ELSE synth.text

\* the report's field synthesis: synth.text
ReportSynthesis == synth.text

\* the report's field debate_rounds: debateRounds
ReportDebateRounds == debateRounds

\* the report's field participants: participants.map((p) => p.id)
ReportParticipants == [i \in DOMAIN participants |-> participants[i].id]

\* return { content: [...], isError: errors.length > 0 }
BrainstormReturn ==
    /\ pc = "return"
    /\ ReturnTool(ReportIsError(errors), "report")
    /\ UNCHANGED <<runnerVars, server, host, stdin, inbox, got, msg, msgNo, brainVars, callVars>>

\* --------------------------------------------------------- claude-runner: main
\* the values of CLAUDE_RUNNER_ALLOWED_ROOTS: unset, blank, one root, two
\* roots, the file system's root, a relative root
EnvValues ==
    {<< >>, <<NoPath>>, <<RawPath(TRUE, <<SegW>>)>>,
     <<RawPath(TRUE, <<SegW>>), RawPath(TRUE, <<SegEtc>>)>>,
     <<RawPath(TRUE, << >>)>>, <<RawPath(FALSE, <<SegSub>>)>>}

ProcCwds == {<<SegW>>, <<SegEtc>>}

\* the cwd arguments: every raw path of at most MaxDepth segments
MaxDepth == 2
RawPaths == {RawPath(abs, segs) : abs \in BOOLEAN, segs \in SeqsOf(Segments, 0, MaxDepth)}

RunnerTools == {"claude.one_shot", "claude.review_diff", "claude.generate_patch"}

OneShotRunArgs(cwd, prompt, files) == [cwd |-> cwd, prompt |-> prompt, context_files |-> files]
ReviewArgs(cwd, diff) == [cwd |-> cwd, diff |-> diff]
PatchArgs(cwd, task, context) == [cwd |-> cwd, task |-> task, context |-> context]

DEFAULT_MAX_FILE_CHARS == 6000

\* a context file outside the working directory
OutsideFile == RawPath(FALSE, <<DotDot, SegEtc>>)

\* a context file in the working directory, and one named by an absolute path
InsideFile == RawPath(FALSE, <<SegSub>>)
AbsoluteFile == RawPath(TRUE, <<SegEtc, SegSub>>)

\* the max_file_chars arguments
CapInputs == {Absent, Num(0), Num(-1), Num(2), Num(100), Num(DEFAULT_MAX_FILE_CHARS + 1), Half(2), Text}

OneShotCapArgs(files, cap) == [prompt |-> "p", context_files |-> files, max_file_chars |-> cap]

\* the cwd arguments of the calls whose other arguments vary
ShallowPaths == {c \in RawPaths : Len(c.segs) <= 1}

\* the three tools with every cwd, and with every other argument on the
\* shallow ones; a tool of the other server
WideRunnerMessages ==
    {Message("a", "tools/call", "claude.one_shot", OneShotRunArgs(c, "p", <<OutsideFile>>)) :
        c \in RawPaths}
    \cup {Message("a", "tools/call", "claude.review_diff", ReviewArgs(c, "d")) : c \in RawPaths}
    \cup {Message("a", "tools/call", "claude.generate_patch", PatchArgs(c, "t", "x")) :
        c \in RawPaths}
    \cup {Message("a", "tools/call", "claude.one_shot", OneShotRunArgs(c, p, f)) :
        c \in ShallowPaths, p \in {"", " ", "p"}, f \in {<< >>, <<OutsideFile>>}}
    \cup {Message("a", "tools/call", "claude.review_diff", ReviewArgs(c, d)) :
        c \in ShallowPaths, d \in {"", " "}}
    \cup {Message("a", "tools/call", "claude.generate_patch", PatchArgs(c, t, x)) :
        c \in ShallowPaths, t \in {"", " ", "t"}, x \in {"", " ", "x"}}
    \cup {Message("a", "tools/call", "model.one_shot", [cwd |-> c]) : c \in ShallowPaths}
    \cup {Message("a", "tools/call", "claude.one_shot", OneShotCapArgs(f, cap)) :
            f \in {<<InsideFile>>, <<InsideFile, AbsoluteFile>>}, cap \in CapInputs}
    \cup {Message("a", "tools/call", "claude.one_shot", [prompt |-> "p"]),
          Message("a", "tools/call", "claude.review_diff", [cwd |-> Num(1), diff |-> "d"]),
          Message("a", "tools/call", "claude.generate_patch",
                  [cwd |-> Absent, task |-> "t", context |-> "x"])}

SmallRunnerCalls ==
    {<<"", NoArgs>>, <<"no.such.tool", NoArgs>>,
     <<"", ReviewArgs(RawPath(TRUE, <<SegEtc>>), "d")>>,
     <<"claude.one_shot", [prompt |-> "p"]>>,
     <<"claude.review_diff", ReviewArgs(RawPath(TRUE, <<SegWOther>>), "d")>>,
     <<"claude.generate_patch", PatchArgs(RawPath(FALSE, <<SegSub>>), "t", "x")>>}

SmallRunnerMessages ==
    {Message(id, m, "", NoArgs) : id \in Ids, m \in Methods \ {"tools/call"}}
    \cup {Message("a", "tools/call", c[1], c[2]) : c \in SmallRunnerCalls}
    \cup {Message(NoId, "tools/call", c[1], c[2]) :
            c \in {<<"", NoArgs>>, <<"claude.one_shot", [prompt |-> "p"]>>}}

InitRunner ==
    /\ server = "runner"
    /\ \/ /\ host \in HostsOf(SeqsOf(SmallRunnerMessages, 0, MaxRequests)) \cup WireHosts
          /\ env \in {<<RawPath(TRUE, <<SegW>>)>>, <<NoPath>>}
          /\ procCwd = <<SegW>>
       \/ /\ host \in HostsOf({<<m>> : m \in WideRunnerMessages})
          /\ env \in EnvValues
          /\ procCwd \in ProcCwds
    /\ InitCommon

\* main of claude-runner, up to its loop: const roots = parseAllowedRoots()
RunnerStart ==
    /\ pc = "start" /\ server = "runner"
    /\ roots' = parseAllowedRoots(env, procCwd)
    /\ out' = Append(out, ReadyFrame)
    /\ pc' = "read"
    /\ UNCHANGED <<server, host, stdin, inbox, got, msg, msgNo, toolResult, brainVars, callVars, env, procCwd,
                   validation, child, timer, timedOut, run, spawns, reads>>

\* ----------------------------------------------------- claude-runner: callTool
\* callTool's first statement, for the cwd argument of msg
\* typeof argumentsObj.cwd === "string" ? argumentsObj.cwd : undefined
CwdArg(args) ==
    IF "cwd" \in DOMAIN args /\ "segs" \in DOMAIN args.cwd THEN args.cwd ELSE NoPath

Validation == validateCwd(CwdArg(msg.args), roots, procCwd)

RunnerCall ==
    /\ pc = "handle" /\ server = "runner"
    /\ msg.method = "tools/call"
    /\ msg.name # ""

\* if (!validation.ok) return { ..., isError: true }
CwdRejected ==
    /\ RunnerCall
    /\ ~Validation.ok
    /\ validation' = [ok |-> FALSE, cwd |-> Validation.cwd, set |-> TRUE]
    /\ ReturnTool(TRUE, "cwd")
    /\ UNCHANGED <<server, host, stdin, inbox, got, msg, msgNo, brainVars, callVars, env, procCwd, roots,
                   child, timer, timedOut, run, spawns, reads>>

\* the tool's own argument check fails, or the name is no tool of the server
RunnerToolInvalid ==
    /\ RunnerCall
    /\ Validation.ok
    /\ \/ msg.name \notin RunnerTools
       \/ msg.name = "claude.one_shot" /\ Required(msg.args, "prompt") = ""
       \/ msg.name = "claude.review_diff" /\ Required(msg.args, "diff") = ""
       \/ /\ msg.name = "claude.generate_patch"
          /\ (Required(msg.args, "task") = "" \/ Required(msg.args, "context") = "")
    /\ validation' = [ok |-> TRUE, cwd |-> Validation.cwd, set |-> TRUE]
    /\ ReturnTool(TRUE, IF msg.name \in RunnerTools THEN "required" ELSE "unknown tool")
    /\ UNCHANGED <<server, host, stdin, inbox, got, msg, msgNo, brainVars, callVars, env, procCwd, roots,
                   child, timer, timedOut, run, spawns, reads>>

\* What the file system holds under a path: nothing, a file that cannot be
\* read, or a file with len characters of content.
Missing == [kind |-> "missing", len |-> 0]
Unreadable == [kind |-> "failed", len |-> 0]
Content(len) == [kind |-> "content", len |-> len]
FileStates == {Missing, Unreadable, Content(0), Content(3), Content(DEFAULT_MAX_FILE_CHARS + 1)}

\* the characters of "(missing)" and of "(read failed)"
MissingText == Len("(missing)")
ReadFailedText == Len("(read failed)")

\* a number as an index of slice: NaN is 0, a fraction is cut off
ToInteger(x) ==
    IF x.k = "nan" THEN 0
    ELSE IF x.k = "half" /\ x.v < 0 THEN x.v + 1
    ELSE x.v

\* the length of str.slice(0, end) for a str of len characters: a negative
\* end counts from the end of the string
Slice(len, end) ==
    IF ToInteger(end) < 0 THEN Max(len + ToInteger(end), 0)
    ELSE Min(ToInteger(end), len)

\* const maxFileChars = Number(argumentsObj.max_file_chars || DEFAULT_MAX_FILE_CHARS)
MaxFileChars(args) == NumberOr(Arg(args, "max_file_chars", Absent), DEFAULT_MAX_FILE_CHARS)

\* what appendFilesContext pushes for one entry of files: "(missing)" when
\* existsSync(full) is false, else content.slice(0, maxChars) of the file's
\* text or of "(read failed)"
Chunk(full, state, maxChars) ==
    [for |-> msgNo, file |-> full, kind |-> state.kind, len |-> state.len,
     chars |-> IF state.kind = "missing" THEN MissingText
               ELSE IF state.kind = "failed" THEN Slice(ReadFailedText, maxChars)
               ELSE Slice(state.len, maxChars)]

\* the chunks of appendFilesContext: one for path.resolve(cwd, rel) of every
\* entry rel of files, fs[i] being what the file system holds for the i-th
FilesRead(cwd, files, fs, maxChars) ==
    {Chunk(Resolve(cwd, files[i]), fs[i], maxChars) : i \in DOMAIN files}

\* a spawn that leaves the cwd option out: the child runs in process.cwd()
SpawnInProcessCwd(cwd) ==
    /\ spawns' = Append(spawns, [for |-> msgNo, cwd |-> procCwd])
    /\ child' = "running"
    /\ timer' = TRUE
    /\ timedOut' = FALSE
    /\ pc' = "run"

\* spawn("claude", ["-p", prompt], { cwd, env }) and setTimeout(...)
Spawn(cwd) ==
    /\ spawns' = Append(spawns, [for |-> msgNo, cwd |-> cwd])
    /\ child' = "running"
    /\ timer' = TRUE
    /\ timedOut' = FALSE
    /\ pc' = "run"

\* the arguments are valid: the prompt is built and runClaude called
RunnerToolRun ==
    /\ RunnerCall
    /\ Validation.ok
    /\ \/ msg.name = "claude.one_shot" /\ Required(msg.args, "prompt") # ""
       \/ msg.name = "claude.review_diff" /\ Required(msg.args, "diff") # ""
       \/ /\ msg.name = "claude.generate_patch"
          /\ Required(msg.args, "task") # "" /\ Required(msg.args, "context") # ""
    /\ validation' = [ok |-> TRUE, cwd |-> Validation.cwd, set |-> TRUE]
    /\ IF msg.name = "claude.one_shot"
       THEN \E fs \in [DOMAIN Arg(msg.args, "context_files", << >>) -> FileStates] :
               reads' = reads \cup FilesRead(Validation.cwd,
                                             Arg(msg.args, "context_files", << >>), fs,
                                             MaxFileChars(msg.args))
       ELSE reads' = reads
    /\ Spawn(Validation.cwd)
    /\ UNCHANGED <<server, host, stdin, inbox, got, msg, msgNo, out, toolResult, brainVars, callVars, env,
                   procCwd, roots, run>>

\* ---------------------------------------------------- claude-runner: runClaude
\* the exit codes of a child; -1 stands for null (the child ended by a signal)
ExitCodes == {-1, 0, 1, 124}

\* a callTool that reports an error only for a run that timed out
ResolvedErrorOnTimeout(exitCode, to) ==
    /\ run' = [set |-> TRUE, exitCode |-> exitCode, timedOut |-> to]
    /\ ReturnTool(to, "run")

\* the promise resolves and callTool returns { ..., isError: run.exitCode !== 0 }
Resolved(exitCode, to) ==
    /\ run' = [set |-> TRUE, exitCode |-> exitCode, timedOut |-> to]
    /\ ReturnTool(exitCode # 0, "run")

\* a close handler without clearTimeout(timer)
ChildCloseKeepsTimer ==
    /\ pc = "run"
    /\ child \in {"running", "killed"}
    /\ \E code \in ExitCodes :
          Resolved(IF timedOut THEN 124 ELSE IF code = -1 THEN 1 ELSE code, timedOut)
    /\ timer' = timer
    /\ child' = "none"
    /\ UNCHANGED <<server, host, stdin, inbox, got, msg, msgNo, brainVars, callVars, env, procCwd, roots,
                   validation, timedOut, spawns, reads>>

\* child.on("close", (code) => ...)
ChildClose ==
    /\ pc = "run"
    /\ child \in {"running", "killed"}
    /\ \E code \in ExitCodes :
          Resolved(IF timedOut THEN 124 ELSE IF code = -1 THEN 1 ELSE code, timedOut)
    /\ timer' = FALSE
    /\ child' = "none"
    /\ UNCHANGED <<server, host, stdin, inbox, got, msg, msgNo, brainVars, callVars, env, procCwd, roots,
                   validation, timedOut, spawns, reads>>

\* The child process ends while a process it started still holds its stdout
\* or stderr: "close" is emitted only once the process has ended and its stdio
\* streams are closed, and runClaude listens to no other event of the end
\* ("exit"), so nothing is called. A later close is a ChildClose taken from
\* "running" or "killed"; here the streams stay open.
ChildExitStdioHeld ==
    /\ pc = "run"
    /\ child \in {"running", "killed"}
    /\ child' = "held"
    /\ UNCHANGED <<server, host, stdin, inbox, got, pc, msg, msgNo, out, toolResult, brainVars,
                   callVars, env, procCwd, roots, validation, timer, timedOut, run, spawns,
                   reads>>

\* child.on("error", (err) => ...): the spawn failed
ChildError ==
    /\ pc = "run"
    /\ child = "running"
    /\ ~timedOut
    /\ Resolved(1, FALSE)
    /\ timer' = FALSE
    /\ child' = "none"
    /\ UNCHANGED <<server, host, stdin, inbox, got, msg, msgNo, brainVars, callVars, env, procCwd, roots,
                   validation, timedOut, spawns, reads>>

\* the timer's callback: timedOut = true; child.kill("SIGKILL")
TimerFires ==
    /\ pc = "run"
    /\ timer
    /\ timedOut' = TRUE
    /\ timer' = FALSE
    /\ child' = IF child = "held" THEN "held" ELSE "killed"
    /\ UNCHANGED <<server, host, stdin, inbox, got, pc, msg, msgNo, out, toolResult, brainVars, callVars, env,
                   procCwd, roots, validation, run, spawns, reads>>

\* ------------------------------------------------------------ the two servers
Init == InitRouter \/ InitRunner

Next ==
    \/ RouterStart
    \/ ReadMessage
    \/ EndOfStream
    \/ ReadFails
    \/ HandleInitialize
    \/ HandleToolsList
    \/ HandlePing
    \/ HandleInitialized
    \/ HandleOtherMethod
    \/ HandleCallNoName
    \/ CallToolUnknown
    \/ OneShotInvalid
    \/ OneShotCall
    \/ BrainstormNoRequirement
    \/ BrainstormNoParticipants
    \/ BrainstormStart
    \/ ProposalCall
    \/ ProposalsDone
    \/ RoundStart
    \/ DebateCall
    \/ RoundEnd
    \/ SynthesisCall
    \/ HttpResponse
    \/ HttpData
    \/ HttpSilence
    \/ HttpTimeout
    \/ BrainstormReturn
    \/ RunnerStart
    \/ CwdRejected
    \/ RunnerToolInvalid
    \/ RunnerToolRun
    \/ ChildClose
    \/ ChildError
    \/ ChildExitStdioHeld
    \/ TimerFires

Spec == Init /\ [][Next]_vars

\* The process does not stop while a step is possible, and a timer whose
\* period has run out fires. Whether and when a backend completes its
\* response is the backend's choice.
FairSpec == Spec /\ WF_vars(Next) /\ WF_vars(HttpTimeout) /\ WF_vars(TimerFires)

\* ------------------------------------------------------ the history of a call
\* while main is in its loop, inbox is what readMessageSync() gives on the
\* bytes not read yet
InboxIsStream == pc # "exited" => inbox = ReadAll(stdin)

Last(seq) == seq[Len(seq)]

\* the positions of the log's events of kind ev
Events(ev) == {p \in 1..Len(log) : log[p].ev = ev}

\* the runBrainstorm of msg got past its argument checks
BrainstormRunning == server = "router" /\ participants # << >>

\* main is back at the head of its loop (or has left it) after handling msg
Handled == msgNo >= 1 /\ pc \in {"read", "exited", "failed"}

\* runBrainstorm returned its report for msg
ReportReturned == BrainstormRunning /\ toolResult.set /\ toolResult.why = "report"

\* the gateway call of `who` in a stage and round has returned a code
EndOf(stage, rnd, who) ==
    {p \in Events("end") :
        log[p].call.stage = stage /\ log[p].call.round = rnd /\ log[p].call.who = who}

\* every proposal call has returned
ProposalStageOver ==
    /\ BrainstormRunning
    /\ \A j \in 1..Len(participants) : EndOf("proposal", 0, j) # {}

\* the frames written in answer to the n-th message
FramesFor(n) == {p \in 1..Len(out) : out[p].for = n}

\* --------------------------------------------------------------------- claims
\* C1: a backend failure of a participant never collapses model.brainstorm:
\* no call of callModel raises, and once main is done with a brainstorm call
\* that passed its argument checks, all N + N*R + 1 gateway calls have returned
\* and the report has been returned as a ToolResult.
C1_FailureNeverCollapses ==
    /\ BrainstormRunning => Events("raise") = {}
    /\ (BrainstormRunning /\ Handled) =>
          /\ ReportReturned
          /\ Cardinality(Events("end")) =
                Len(participants) + Len(participants) * LoopRounds(debateRounds) + 1

\* the code the proposal call of participant j returned
ProposalCode(j) == log[CHOOSE p \in EndOf("proposal", 0, j) : TRUE].code

\* the last participant of the list that carries the id of participant j
LastWithId(j) ==
    CHOOSE h \in 1..Len(participants) :
        /\ participants[h].id = participants[j].id
        /\ \A g \in (h + 1)..Len(participants) : participants[g].id # participants[j].id

\* the proposals entry under participant j's id was stored for the proposal
\* call of participant h: its trimmed text on code 0, a failure tag otherwise
EntryIsOf(j, h) ==
    /\ participants[j].id \in DOMAIN proposals
    /\ LET e == proposals[participants[j].id]
       IN  /\ e.src = <<"proposal", 0, h>>
           /\ e.failed <=> ProposalCode(h) # 0
           /\ ~e.failed => (e.text.what = "model" /\ ~e.text.ws)
           /\ e.failed => e.text.what \in {"raw", "diag"}

\* C2: after the proposal stage every participant of the list has its own
\* entry in proposals (its trimmed text on code 0, a failure tag otherwise),
\* also when two participants share an id.
C2_EveryParticipantOwnEntry ==
    ProposalStageOver => \A j \in 1..Len(participants) : EntryIsOf(j, j)

\* what the proposal loop stores instead: one entry per id, that of the last
\* participant of the list carrying the id (line 354 and line 356 assign
\* proposals[model.id], so a later participant overwrites an earlier one)
ProposalsKeepLastWithId ==
    ProposalStageOver =>
        /\ DOMAIN proposals = {participants[j].id : j \in 1..Len(participants)}
        /\ \A j \in 1..Len(participants) : EntryIsOf(j, LastWithId(j))

\* C3: for a brainstorm call that returns a report, ToolResult.isError is true
\* exactly when the error log is not empty, which is exactly when some gateway
\* call of the proposal, debate or synthesis stage returned a nonzero code.
C3_IsErrorIffErrorLog ==
    ReportReturned =>
        /\ Last(out).for = msgNo /\ Last(out).tool
        /\ Last(out).isError <=> Len(errors) > 0
        /\ toolResult.isError <=> Len(errors) > 0
        /\ Len(errors) > 0 <=> \E p \in Events("end") : log[p].code # 0

\* a report whose only failure is the synthesis call's
C3_Witness ==
    /\ ReportReturned
    /\ Len(errors) = 1
    /\ errors[1].stage = "synthesis"
    /\ Last(out).isError

\* what C4 says the executed rounds are for a requested integer
ClaimedRounds(v) == Max(0, Min(5, v))

\* C4: the number of executed debate rounds is the requested debate_rounds
\* clamped to [0, 5] (-1, 0, 5, 7 give 0, 0, 5, 5), and a request of 0 makes
\* no debate call and leaves the debate history empty.
C4_RoundsClamped ==
    (ReportReturned /\ Arg(msg.args, "debate_rounds", Absent).k = "int") =>
        LET v == Arg(msg.args, "debate_rounds", Absent).v
        IN  /\ Len(debates) = ClaimedRounds(v)
            /\ v = 0 => /\ debates = << >>
                        /\ \A p \in Events("call") : log[p].call.stage # "debate"

\* the output map of the stage before debate round r
PrevPool(r) == IF r = 1 THEN proposals ELSE debates[r - 1].responses
PrevStage(r) == IF r = 1 THEN <<"proposal", 0>> ELSE <<"debate", r - 1>>

\* C5: the input of every debate call is the previous stage's complete output
\* map (round 1: the proposals, round i+1: the responses of round i, failed
\* entries included) without the entry under the acting participant's id; it
\* holds no response of the same round and no text the acting participant made.
C5_DebateInputIsPreviousStage ==
    BrainstormRunning =>
        \A p \in Events("call") :
            log[p].call.stage = "debate" =>
                LET c == log[p].call
                    pool == PrevPool(c.round)
                IN  /\ DOMAIN pool = {participants[j].id : j \in 1..Len(participants)}
                    /\ DOMAIN c.input = (DOMAIN pool) \ {c.id}
                    /\ \A x \in DOMAIN c.input :
                          /\ c.input[x] = pool[x]
                          /\ <<c.input[x].src[1], c.input[x].src[2]>> = PrevStage(c.round)
                          /\ c.input[x].src[3] # c.who

\* a call of round 2 whose input holds a failed response of round 1
C5_Witness ==
    /\ BrainstormRunning
    /\ \E p \in Events("call") :
          /\ log[p].call.stage = "debate"
          /\ log[p].call.round = 2
          /\ \E x \in DOMAIN log[p].call.input : log[p].call.input[x].failed

\* the j-th gateway call of a brainstorm with n participants and r rounds
Schedule(j, n, r) ==
    IF j <= n THEN <<"proposal", 0, j>>
    ELSE IF j <= n + n * r THEN <<"debate", ((j - n - 1) \div n) + 1, ((j - n - 1) % n) + 1>>
    ELSE <<"synthesis", 0, SynthModel(participants, synthesisBy)>>

\* the gateway calls issued so far, in order
RECURSIVE CallsIn(_)
CallsIn(lg) ==
    IF lg = << >> THEN << >>
    ELSE IF Head(lg).ev = "call" THEN <<Head(lg).call>> \o CallsIn(Tail(lg))
    ELSE CallsIn(Tail(lg))

\* C6: the gateway calls of a brainstorm are strictly ordered: all proposal
\* calls, then the rounds in order, then the synthesis call, each stage in
\* list order; a call is issued only when every earlier call has ended, so at
\* most one is in flight.
C6_CallsStrictlyOrdered ==
    BrainstormRunning =>
        /\ Cardinality(pending) <= 1
        /\ LET cs == CallsIn(log)
           IN  /\ Len(cs) <= Len(participants) + Len(participants) * LoopRounds(debateRounds) + 1
               /\ \A j \in 1..Len(cs) :
                     <<cs[j].stage, cs[j].round, cs[j].who>> =
                        Schedule(j, Len(participants), LoopRounds(debateRounds))
        /\ \A p, q \in Events("call") :
              p < q => \E e \in Events("end") : p < e /\ e < q /\ log[e].call = log[p].call

\* the second call of debate round 2 is in flight
C6_Witness ==
    /\ BrainstormRunning
    /\ \E c \in pending : c.stage = "debate" /\ c.round = 2 /\ c.who = 2

\* root is target or one of its ancestors, segment by segment
Contains(root, target) ==
    /\ Len(root) <= Len(target)
    /\ SubSeq(target, 1, Len(root)) = root

\* C7: a bridge tool spawns its subprocess only after validateCwd has accepted
\* the resolved working directory, and with that directory as the child's cwd;
\* when containment fails the call returns an error ToolResult at once and no
\* subprocess is started for it.
C7_SpawnOnlyInAcceptedCwd ==
    server = "runner" =>
        /\ \A p \in 1..Len(spawns) : \E j \in 1..Len(roots) : isUnder(roots[j], spawns[p].cwd)
        /\ \A p, q \in 1..Len(spawns) : spawns[p].for = spawns[q].for => p = q
        /\ (pc = "run" \/ run.set) =>
              /\ msg.name \in RunnerTools
              /\ validation.set /\ validation.ok
              /\ validation.cwd = Resolve(procCwd, CwdArg(msg.args))
              /\ Last(spawns) = [for |-> msgNo, cwd |-> validation.cwd]
        /\ (validation.set /\ ~validation.ok) =>
              /\ Handled
              /\ toolResult.set /\ toolResult.isError
              /\ Last(out) = successResponse(msgNo, msg.id, TRUE, TRUE)
              /\ \A p \in 1..Len(spawns) : spawns[p].for # msgNo

\* claude.generate_patch runs its child in a directory below the root that is
\* not the server's own working directory
C7_Witness ==
    /\ server = "runner"
    /\ pc = "run"
    /\ msg.name = "claude.generate_patch"
    /\ validation.cwd = <<SegW, SegSub>>
    /\ procCwd = <<SegW>>

\* C8: validateCwd accepts a resolved directory exactly when it is an allowed
\* root or a descendant of one, whatever the names of its segments.
C8_AcceptsIffWithinRoot ==
    (server = "runner" /\ validation.set) =>
        (validation.ok <=> \E j \in 1..Len(roots) : Contains(roots[j], validation.cwd))

\* C9: a tools/call with a non-empty tool name is always answered by an RPC
\* success response that carries the tool's ToolResult, never by an RPC error.
C9_ToolCallIsRpcSuccess ==
    (Handled /\ msg.method = "tools/call" /\ msg.name # "") =>
        /\ FramesFor(msgNo) # {}
        /\ \A p \in FramesFor(msgNo) : out[p].kind = "result" /\ out[p].tool

\* C10: a message with an id is answered by exactly one frame with that id,
\* a message without an id by no frame, whatever the method.
C10_OneFrameIffId ==
    Handled =>
        IF msg.id # NoId
        THEN /\ Cardinality(FramesFor(msgNo)) = 1
             /\ \A p \in FramesFor(msgNo) : out[p].id = msg.id
        ELSE FramesFor(msgNo) = {}

\* what handleRequest and main do instead: at most one frame, carrying the
\* message's id (none when the message has none); no frame exactly for
\* notifications/initialized and initialized (with or without an id) and for
\* a message without an id whose method is unknown or whose handling raised;
\* initialize, tools/list, ping and tools/call are answered without an id too.
FramesByMethod ==
    Handled =>
        /\ Cardinality(FramesFor(msgNo)) <= 1
        /\ \A p \in FramesFor(msgNo) : out[p].id = msg.id /\ out[p].kind \in {"result", "error"}
        /\ FramesFor(msgNo) = {} <=>
              \/ msg.method \in {"notifications/initialized", "initialized"}
              \/ msg.id = NoId /\ (msg.method \notin KnownMethods \/ Events("raise") # {})

\* C11: requests are handled single-flight: while main reads a frame, starts
\* a handler or has returned, no gateway call is in flight and no subprocess
\* or timer of an earlier handler is left; every frame written so far answers
\* a message already read, and the answers stand in the order of the messages.
C11_SingleFlight ==
    /\ pc \in {"read", "handle", "exited", "failed"} =>
          /\ pending = {}
          /\ child = "none"
          /\ ~timer
    /\ \A p \in 1..Len(out) : out[p].for <= msgNo
    /\ \A p, q \in 1..Len(out) :
          (p < q /\ out[p].for >= 1 /\ out[q].for >= 1) => out[p].for <= out[q].for
    /\ pc = "handle" => FramesFor(msgNo) = {}

\* the second message is being handled after the first one's gateway call
\* failed and was answered
C11_Witness ==
    /\ msgNo = 2
    /\ pc = "handle"
    /\ fails = 1
    /\ Cardinality(FramesFor(1)) = 1
    /\ out[Len(out)].tool

\* C12: when the handling of a message raised, main has written exactly one
\* error frame with code -32000 and the message's id (no frame when the
\* message has no id), has not returned, and reads the frames that follow:
\* it leaves its loop only when a later read gives no message or raises.
C12_ExceptionBecomesError ==
    Events("raise") # {} =>
        /\ pc \in {"read", "exited", "failed"}
        /\ pc = "exited" => got \in {"null", "zero"}
        /\ pc = "failed" => got = "throw"
        /\ IF msg.id # NoId
           THEN /\ Cardinality(FramesFor(msgNo)) = 1
                /\ \A p \in FramesFor(msgNo) :
                      out[p].kind = "error" /\ out[p].code = -32000 /\ out[p].id = msg.id
           ELSE FramesFor(msgNo) = {}

\* the handling of the first message raised and was answered with -32000;
\* main went on to the second message, which has no id: its handling raised
\* too, nothing was written for it and main is back at its read
C12_Witness ==
    /\ msgNo = 2
    /\ pc = "read"
    /\ Events("raise") # {}
    /\ msg.id = NoId
    /\ Len(out) = 2
    /\ out[2].for = 1 /\ out[2].code = -32000 /\ out[2].id = "a"

\* C13: a message whose method is none of initialize, tools/list, tools/call,
\* ping, notifications/initialized, initialized is answered by exactly one
\* error frame with code -32601 and its id when it has an id, by nothing when
\* it has none; no tool is invoked for it (no ToolResult, no gateway call,
\* no cwd validation, no subprocess).
C13_UnknownMethod ==
    (msgNo >= 1 /\ msg.method \notin KnownMethods) =>
        /\ pc \in {"handle", "read", "exited", "failed"}
        /\ ~toolResult.set /\ log = << >> /\ ~validation.set
        /\ \A j \in 1..Len(spawns) : spawns[j].for # msgNo
        /\ pc = "handle" => FramesFor(msgNo) = {}
        /\ pc # "handle" =>
              IF msg.id # NoId
              THEN /\ Cardinality(FramesFor(msgNo)) = 1
                   /\ \A p \in FramesFor(msgNo) :
                         out[p].kind = "error" /\ out[p].code = -32601 /\ out[p].id = msg.id
              ELSE FramesFor(msgNo) = {}

\* resources/list without an id was dropped, then resources/list with id "b"
\* was answered
C13_Witness ==
    /\ msgNo = 2
    /\ pc = "read"
    /\ msg.method = "resources/list" /\ msg.id = "b"
    /\ FramesFor(1) = {}
    /\ Cardinality(FramesFor(2)) = 1
    /\ stdin = << >>

\* the tools of the running server's registry
Registry == IF server = "router" THEN RouterTools ELSE RunnerTools

\* C14: a tools/call that names a tool outside the server's registry makes no
\* gateway call (no HTTP request), spawns no subprocess and reads no file,
\* whatever its arguments, and is answered by a ToolResult with isError true.
C14_UnknownToolNoSideEffect ==
    (msgNo >= 1 /\ msg.method = "tools/call" /\ msg.name # "" /\ msg.name \notin Registry) =>
        /\ pc \in {"handle", "read", "exited", "failed"}
        /\ log = << >> /\ pending = {}
        /\ child = "none" /\ ~timer
        /\ \A j \in 1..Len(spawns) : spawns[j].for # msgNo
        /\ msgNo = 1 => reads = {}
        /\ pc # "handle" =>
              /\ toolResult.set /\ toolResult.isError
              /\ Cardinality(FramesFor(msgNo)) = 1
              /\ \A p \in FramesFor(msgNo) :
                    out[p].kind = "result" /\ out[p].tool /\ out[p].isError

\* claude-runner was asked for model.one_shot in an accepted cwd and answered
C14_Witness ==
    /\ server = "runner"
    /\ pc = "read"
    /\ msg.name = "model.one_shot"
    /\ validation.set /\ validation.ok
    /\ toolResult.isError /\ toolResult.why = "unknown tool"

\* the cases in which C15 says callModel returns code 2
ClaimedCode2(spec) ==
    \/ spec.provider = "openai" /\ spec.api_key = ""
    \/ spec.provider = "anthropic" /\ spec.api_key = ""
    \/ spec.provider = "gemini" /\ spec.api_url = "" /\ spec.api_key = ""
    \/ spec.provider = "custom" /\ spec.api_url = ""
    \/ spec.provider \notin {"openai", "anthropic", "gemini", "custom"}

\* the HTTP requests issued for the callModel invocation logged at p
HttpOf(p) == {q \in Events("http") : q > p /\ log[q].call = log[p].call}

\* C15: callModel returns code 2 without an HTTP request exactly for openai
\* without api_key, anthropic without api_key, gemini with neither api_url
\* nor api_key, custom without api_url and a provider outside the four; in
\* every other case it issues exactly one HTTP request.
C15_Code2OrOneRequest ==
    \A p \in Events("call") :
        IF ClaimedCode2(SpecOf(log[p].call))
        THEN /\ HttpOf(p) = {}
             /\ log[p + 1].ev = "end" /\ log[p + 1].code = 2
        ELSE /\ Cardinality(HttpOf(p)) = 1
             /\ log[p + 1].ev = "http"

\* C16: for every outcome of the HTTP request of a gateway call, callModel
\* returns code 0 only for a response that is no failure; a status >= 400 and
\* a status 0 (no response reached, transport error, timeout) give the code
\* status, or 1 for status 0, with the raw body or error message as text and
\* without running an extractor; a code 0 with extracted text is returned
\* only after such a successful response.
C16_HttpFailureIsNonzeroRaw ==
    /\ \A p \in Events("status") :
          /\ log[p + 1].ev = "end" /\ log[p + 1].call = log[p].call
          /\ IF log[p].code >= 400 \/ log[p].code = 0
             THEN /\ log[p + 1].code = (IF log[p].code = 0 THEN 1 ELSE log[p].code)
                  /\ log[p + 1].code # 0
                  /\ log[p + 1].what = "raw"
             ELSE /\ log[p + 1].code = 0
                  /\ log[p + 1].what = "model"
    /\ \A e \in Events("end") :
          (log[e].code = 0 \/ log[e].what = "model") =>
              /\ log[e - 1].ev = "status"
              /\ log[e - 1].code \notin {0} /\ log[e - 1].code < 400

\* a debate call whose request got no response returned code 1 with the
\* error message, after a proposal call that succeeded
C16_Witness ==
    \E p \in Events("status"), e \in Events("end") :
        /\ e < p
        /\ log[e].code = 0 /\ log[e].call.stage = "proposal"
        /\ log[p].code = 0 /\ log[p].call.stage = "debate"
        /\ log[p + 1].code = 1 /\ log[p + 1].what = "raw"

\* C17: every gateway call eventually returns: a request whose backend does
\* not complete its response before the per-call timeout has elapsed is
\* aborted and callModel returns a nonzero code, so no call of model.one_shot
\* or model.brainstorm waits forever.
C17_EveryCallReturns == (pending # {}) ~> (pending = {})

\* C18: when the timer of a bridge call fires before the child has closed,
\* the child is killed and the result has timedOut = true and exit code 124;
\* a result has exit code 124 exactly when it has timedOut = true.
C18_TimeoutIs124 ==
    /\ (pc = "run" /\ timedOut) => child \in {"killed", "held"}
    /\ run.set => (timedOut => run.timedOut /\ run.exitCode = 124)
    /\ run.set => (run.exitCode = 124 <=> run.timedOut)

\* the synthesis calls issued so far
SynthesisCalls == {p \in Events("call") : log[p].call.stage = "synthesis"}

\* C19: the synthesis stage issues exactly one gateway call; it goes to the
\* participant whose id is the requested synthesis_by, and to the first
\* participant of the list when synthesis_by is absent or the id of no
\* participant; the report's synthesis_by is the id of the participant called.
C19_SynthesisTarget ==
    BrainstormRunning =>
        LET requested == Arg(msg.args, "synthesis_by", "")
        IN  /\ Cardinality(SynthesisCalls) <= 1
            /\ pc = "return" => Cardinality(SynthesisCalls) = 1
            /\ ReportReturned =>
                  /\ Cardinality(SynthesisCalls) = 1
                  /\ \A p \in SynthesisCalls :
                        /\ ReportSynthesisBy = participants[log[p].call.who].id
                        /\ synth.who = log[p].call.who
            /\ \A p \in SynthesisCalls :
                  IF \E j \in 1..Len(participants) : participants[j].id = requested
                  THEN participants[log[p].call.who].id = requested
                  ELSE log[p].call.who = 1

\* synthesis_by names the second of two participants, the synthesis call went
\* to it and the report is returned
C19_Witness ==
    /\ ReportReturned
    /\ Len(participants) = 2
    /\ Arg(msg.args, "synthesis_by", "") = "B"
    /\ participants[1].id # "B" /\ participants[2].id = "B"
    /\ synth.who = 2
    /\ ReportSynthesisBy = "B"

\* the invocations of callModel for participant j in a stage and round
Invocations(stage, rnd, j) ==
    {p \in Events("call") :
        log[p].call.stage = stage /\ log[p].call.round = rnd /\ log[p].call.who = j}

\* C20: no gateway call is retried: once main is done with a model.brainstorm
\* call that accepted N participants and executed R debate rounds, callModel
\* has been invoked exactly N + N*R + 1 times whatever the codes, once per
\* participant in the proposal stage and once per participant and round in
\* the debate stage; a model.one_shot call invokes it exactly once.
C20_NoRetryExactCount ==
    /\ (BrainstormRunning /\ Handled) =>
          LET n == Len(participants)
              r == Len(debates)
          IN  /\ Cardinality(Events("call")) = n + n * r + 1
              /\ \A j \in 1..n :
                    /\ Cardinality(Invocations("proposal", 0, j)) = 1
                    /\ \A i \in 1..r : Cardinality(Invocations("debate", i, j)) = 1
    /\ (server = "router" /\ msg.name = "model.one_shot" /\ Handled /\ toolResult.why # "invalid") =>
          Cardinality(Events("call")) = 1

\* C21: framing round trip: for a host that frames every payload as
\* writeMessage does and delivers all frames, readMessageSync at the start of
\* each frame never gives "no message", gives the payload's JSON value when
\* the payload is a JSON text, and stops exactly at the start of the next
\* frame; main receives the frames in the order they were written. The
\* payloads include the empty one (size 0).
C21_FramingRoundTrip ==
    WellFramed(host) =>
        /\ \A i \in 1..Len(host.bodies) :
              LET g == readMessageSync(WireFrom(host, i))
                  value == JsonParse(host.bodies[i], << >>)
              IN  /\ g.kind # "null"
                  /\ g.rest = WireFrom(host, i + 1)
                  /\ value.kind # "throw" => (g.kind = value.kind /\ g.msg = value.msg)
        /\ pc = "handle" =>
              /\ msg = JsonParse(host.bodies[msgNo], << >>).msg
              /\ stdin = WireFrom(host, msgNo + 1)

\* every frame of h is a message object framed as writeMessage frames it
MessageFrames(h) ==
    \A i \in 1..Len(h.bodies) :
        /\ h.heads[i] = WriteHeader(Len(h.bodies[i]))
        /\ JsonParse(h.bodies[i], << >>).kind = "object"

\* the frames of h that are delivered to their last byte
WholeFrames(h) ==
    {i \in 1..Len(h.bodies) : Len(WireFrom(h, 1)) - Len(WireFrom(h, i + 1)) <= h.cut}

\* C22: when the stream of well-formed frames ends at any point (before a
\* header byte, inside a header, before the last body byte), the read at
\* that point gives "no message": main has received exactly the frames that
\* were delivered whole, nothing of the cut frame, and on the signal it
\* leaves its loop; a server that left its loop on "no message" has written
\* no frame but the ready notification and the answers to its messages.
C22_EndOfStreamIsNoMessage ==
    /\ MessageFrames(host) =>
          LET whole == Cardinality(WholeFrames(host))
              results == ReadAll(Delivered(host))
          IN  /\ Len(results) = whole + 1
              /\ \A i \in 1..whole : results[i].kind = "object"
              /\ results[whole + 1].kind = "null"
              /\ \A i \in 1..whole : results[i].msg = JsonParse(host.bodies[i], << >>).msg
              /\ msgNo <= whole
              /\ pc = "handle" => msg = JsonParse(host.bodies[msgNo], << >>).msg
              /\ pc \in {"exited", "failed"} => (pc = "exited" /\ got = "null" /\ msgNo = whole)
    /\ got \in {"null", "zero"} => pc = "exited"
    /\ pc = "exited" =>
          /\ got \in {"null", "zero"}
          /\ \A p \in 1..Len(out) :
                /\ out[p].id # NullId
                /\ out[p] = ReadyFrame \/ out[p].for \in 1..msgNo
          /\ \A n \in 1..msgNo : Cardinality(FramesFor(n)) <= 1

\* the stream ended one byte before the end of the second frame's body: the
\* first message was answered, nothing else was written and main returned
C22_Witness ==
    /\ MessageFrames(host)
    /\ Len(host.bodies) = 2
    /\ host.cut = Len(WireFrom(host, 1)) - 1
    /\ pc = "exited"
    /\ msgNo = 1
    /\ Len(out) = 2

\* the Content-Length a header declares: Number of the value, or of "0"
\* when the header has none
DeclaredLength(head) ==
    LET value == ContentLengthOf(head)
    IN  Number(IF value = << >> THEN <<B("0")>> ELSE value)

\* the header's Content-Length is missing, zero, not numeric or negative
Malformed(head) == DeclaredLength(head).nan \/ DeclaredLength(head).v <= 0

\* C23: a frame whose Content-Length is missing, zero, not numeric or
\* negative gives "no message": readMessageSync returns null with no byte
\* read after the header and raises nothing; a server whose first frame is
\* such a frame leaves its loop having written nothing but its ready
\* notification (no error frame).
C23_MalformedLengthIsNoMessage ==
    /\ \A i \in 1..Len(host.heads) :
          (host.cut = Len(WireFrom(host, 1)) /\ Malformed(host.heads[i])) =>
              LET g == readMessageSync(WireFrom(host, i))
              IN  /\ g.kind = "null"
                  /\ g.rest = host.bodies[i] \o WireFrom(host, i + 1)
    /\ (host.heads # << >> /\ host.cut = Len(WireFrom(host, 1)) /\ Malformed(host.heads[1])
           /\ pc \notin {"start", "read"}) =>
          /\ pc = "exited"
          /\ got = "null"
          /\ msgNo = 0
          /\ out = <<ReadyFrame>>

\* the frames written by the top-level catch
NullIdFrames == {p \in 1..Len(out) : out[p].id = NullId}

\* C24: when a read raises (a body that is no JSON text, a length no buffer
\* can have), the failure leaves main: the server writes one error frame
\* with id null and code -32000 as its last frame and stops, with nothing
\* in flight; the bytes after the failing frame stay unread and only the
\* messages before it were received. No frame with id null is written
\* otherwise.
C24_EscapedFailureIsNullIdError ==
    /\ got = "throw" <=> pc = "failed"
    /\ pc # "failed" => NullIdFrames = {}
    /\ pc = "failed" =>
          /\ Cardinality(NullIdFrames) = 1
          /\ Last(out) = errorResponse(0, NullId, -32000)
          /\ pending = {} /\ child = "none" /\ ~timer
          /\ LET results == ReadAll(Delivered(host))
             IN  /\ \A i \in 1..msgNo : results[i].kind = "object"
                 /\ results[msgNo + 1].kind = "throw"
                 /\ stdin = results[msgNo + 1].rest
                 /\ inbox = SubSeq(results, msgNo + 2, Len(results))

\* the body of the first frame is no JSON text: the error frame follows the
\* ready notification, and the well-formed frame behind it is never read
C24_Witness ==
    /\ pc = "failed"
    /\ msgNo = 0
    /\ Len(out) = 2
    /\ WellFramed(host)
    /\ host.bodies[1] = <<B("}"), B("{")>>
    /\ stdin = writeMessage(Stringify(PingA))
    /\ inbox # << >> /\ Head(inbox).kind = "object"

\* C25: a tools/call whose params carry no tool name, or an empty one, is
\* answered by one RPC error frame with code -32602 and no tool function is
\* invoked for it: no ToolResult, no cwd validation, no gateway call and no
\* subprocess, whatever its arguments.
C25_MissingToolName ==
    (msgNo >= 1 /\ msg.method = "tools/call" /\ msg.name = "") =>
        /\ pc \in {"handle", "read", "exited", "failed"}
        /\ ~toolResult.set /\ ~validation.set
        /\ log = << >> /\ pending = {}
        /\ child = "none" /\ ~timer
        /\ \A j \in 1..Len(spawns) : spawns[j].for # msgNo
        /\ pc = "handle" => FramesFor(msgNo) = {}
        /\ pc # "handle" =>
              /\ Cardinality(FramesFor(msgNo)) = 1
              /\ \A p \in FramesFor(msgNo) :
                    out[p].kind = "error" /\ out[p].code = -32602 /\ out[p].id = msg.id

\* claude-runner answered a nameless tools/call whose cwd argument lies
\* outside the allowed root: -32602, and the cwd was never looked at
C25_Witness ==
    /\ server = "runner"
    /\ pc = "read"
    /\ msg.method = "tools/call" /\ msg.name = ""
    /\ "cwd" \in DOMAIN msg.args
    /\ ~validateCwd(CwdArg(msg.args), roots, procCwd).ok
    /\ Last(out) = errorResponse(msgNo, "a", -32602)

\* a string that is empty or white space only
Blank(s) == s \in {"", " "}

\* a raw model object that names no provider or no model
NotAModel(item) == ~item.obj \/ item.provider = "" \/ Blank(item.model)

\* msg is a tool call whose required arguments are missing or invalid
BadArguments ==
    /\ msgNo >= 1 /\ msg.method = "tools/call"
    /\ \/ /\ server = "router" /\ msg.name = "model.one_shot"
          /\ \/ NotAModel(Arg(msg.args, "model", RawItem(FALSE, "", "", "", "", "")))
             \/ Blank(Arg(msg.args, "prompt", ""))
       \/ /\ server = "router" /\ msg.name = "model.brainstorm"
          /\ \/ Blank(Arg(msg.args, "requirement", ""))
             \/ \A i \in DOMAIN Arg(msg.args, "participants", << >>) :
                   NotAModel(Arg(msg.args, "participants", << >>)[i])
       \/ /\ server = "runner" /\ msg.name = "claude.one_shot"
          /\ Blank(Arg(msg.args, "prompt", ""))
       \/ /\ server = "runner" /\ msg.name = "claude.review_diff"
          /\ Blank(Arg(msg.args, "diff", ""))
       \/ /\ server = "runner" /\ msg.name = "claude.generate_patch"
          /\ (Blank(Arg(msg.args, "task", "")) \/ Blank(Arg(msg.args, "context", "")))

\* C26: a tool call with missing or invalid required arguments is answered in
\* one step with isError true and before any side effect: the step that
\* handles it issues no gateway call, spawns no subprocess and reads no file,
\* and the call never reaches a stage of a tool.
C26_BadArgumentsNoSideEffect ==
    /\ [](BadArguments => pc \in {"handle", "read", "exited", "failed"})
    /\ [][(BadArguments /\ pc = "handle") =>
            /\ toolResult'.set /\ toolResult'.isError
            /\ out' = Append(out, successResponse(msgNo, msg.id, TRUE, TRUE))
            /\ log' = log /\ pending' = pending
            /\ spawns' = spawns /\ reads' = reads /\ child' = child
            /\ pc' = "read"]_vars

\* claude-runner refused a claude.one_shot whose prompt is white space only,
\* with context files named and a cwd under the allowed root: no file was
\* read and no subprocess spawned
C26_Witness ==
    /\ server = "runner" /\ pc = "read"
    /\ msg.method = "tools/call" /\ msg.name = "claude.one_shot"
    /\ Arg(msg.args, "prompt", "") = " "
    /\ Arg(msg.args, "context_files", << >>) # << >>
    /\ validation.set /\ validation.ok
    /\ toolResult.set /\ toolResult.isError
    /\ reads = {} /\ spawns = << >>

\* C27: the allow-list of claude-runner is computed once, before the first
\* read; it is never empty (an absent or blank configuration value gives the
\* server's own working directory); no step changes it afterwards; and every
\* callTool of the process is decided against it.
C27_RootsFixedAtStart ==
    /\ [](server = "runner" /\ pc # "start" =>
            /\ roots # << >>
            /\ (\A j \in DOMAIN env : env[j] = NoPath) => roots = <<procCwd>>
            /\ \A j \in DOMAIN roots :
                  \/ roots = <<procCwd>>
                  \/ \E i \in DOMAIN env : env[i] # NoPath /\ roots[j] = Resolve(procCwd, env[i])
            /\ validation.set =>
                  /\ validation.cwd = Resolve(procCwd, CwdArg(msg.args))
                  /\ validation.ok <=>
                        \E j \in DOMAIN roots : isUnder(roots[j], validation.cwd))
    /\ [][server = "runner" /\ pc # "start" =>
            roots' = roots /\ env' = env /\ procCwd' = procCwd]_vars

\* with a blank configuration value the second request of a process is
\* refused against the default root its first request was accepted under
C27_Witness ==
    /\ server = "runner" /\ msgNo = 2 /\ pc = "read"
    /\ env = <<NoPath>> /\ roots = <<procCwd>>
    /\ validation.set /\ ~validation.ok
    /\ \E j \in DOMAIN spawns : spawns[j].for = 1 /\ isUnder(roots[1], spawns[j].cwd)

\* the text a stage keeps of a gateway call that returned `what`
KeptText(what) == [what |-> what, ws |-> FALSE]

\* The report a runBrainstorm makes of the gateway calls in lg alone: the
\* proposals, the error log and the debate history are rebuilt from the
\* returns of the calls, in the order they were made.
RECURSIVE EntriesOf(_, _, _)
EntriesOf(lg, stage, rnd) ==
    IF lg = << >> THEN << >>
    ELSE LET e == lg[Len(lg)]
             before == EntriesOf(SubSeq(lg, 1, Len(lg) - 1), stage, rnd)
         IN  IF e.ev = "end" /\ e.call.stage = stage /\ e.call.round = rnd
             THEN Put(before, e.call.id,
                      [src |-> <<stage, rnd, e.call.who>>, failed |-> e.code # 0,
                       text |-> KeptText(e.what)])
             ELSE before

RECURSIVE FailuresOf(_)
FailuresOf(lg) ==
    IF lg = << >> THEN << >>
    ELSE LET e == Head(lg)
         IN  IF e.ev = "end" /\ e.code # 0
             THEN <<[stage |-> e.call.stage, round |-> e.call.round, id |-> e.call.id,
                     code |-> e.code]>> \o FailuresOf(Tail(lg))
             ELSE FailuresOf(Tail(lg))

\* C28: no brainstorm state is carried from one request to the next. The
\* report a model.brainstorm call returns is a function of the call's own
\* arguments and of the returns of its own gateway calls: its proposals, its
\* debate history and its error log are exactly what these calls produced,
\* every call was made for a participant of this call's arguments, and
\* nothing a call before it gathered is in them.
C28_NoStateAcrossCalls ==
    ReportReturned =>
        LET own == CollectParticipants(Arg(msg.args, "participants", << >>), 1)
            rounds == LoopRounds(DebateRounds(Arg(msg.args, "debate_rounds", Absent)))
        IN  /\ participants = own
            /\ \A p \in DOMAIN log :
                  /\ log[p].call.who \in DOMAIN own
                  /\ log[p].call.id = own[log[p].call.who].id
            /\ proposals = EntriesOf(log, "proposal", 0)
            /\ DOMAIN proposals = {own[i].id : i \in DOMAIN own}
            /\ debates = [r \in 1..rounds |->
                            [round |-> r, responses |-> EntriesOf(log, "debate", r)]]
            /\ errors = FailuresOf(log)

\* the second model.brainstorm of a process reported an empty error log
\* although the one before it, with the same arguments, had logged the one
\* failure of the process
C28_Witness ==
    /\ ReportReturned /\ msgNo = 2
    /\ LET results == ReadAll(Delivered(host))
       IN  /\ results[1].msg.name = "model.brainstorm"
           /\ results[1].msg.args = msg.args
    /\ fails = 1
    /\ errors = << >>
    /\ proposals # << >>

\* the return of the synthesis call in the log of the request
SynthesisEnds == {p \in Events("end") : log[p].call.stage = "synthesis"}

\* C29: when the synthesis gateway call returns a nonzero code the report is
\* still returned in full. The step that takes the return appends exactly one
\* synthesis entry to the error log and leaves the proposals and the debate
\* history as they were, and so does the return of the report; the report's
\* synthesis field is the text the failed call returned.
C29_FailedSynthesisStillReports ==
    /\ [][(pc # "return" /\ pc' = "return" /\ synth'.code # 0) =>
            /\ errors' = Append(errors, [stage |-> "synthesis", round |-> 0,
                                          id |-> ReportSynthesisBy, code |-> synth'.code])
            /\ \A i \in DOMAIN errors : errors[i].stage # "synthesis"
            /\ proposals' = proposals /\ debates' = debates]_vars
    /\ [][pc = "return" =>
            /\ pc' = "read" /\ toolResult'.set /\ toolResult'.why = "report"
            /\ UNCHANGED <<proposals, debates, errors, synth>>]_vars
    /\ []((ReportReturned /\ synth.code # 0) =>
            /\ toolResult.isError
            /\ Cardinality({i \in DOMAIN errors : errors[i].stage = "synthesis"}) = 1
            /\ Cardinality(SynthesisEnds) = 1
            /\ \A p \in SynthesisEnds :
                  /\ log[p].code = synth.code
                  /\ ReportSynthesis = KeptText(log[p].what)
                  /\ log[p].what \in {"raw", "diag"}
            /\ DOMAIN proposals = {participants[i].id : i \in DOMAIN participants}
            /\ Len(debates) = LoopRounds(debateRounds))

\* a report whose only logged failure is the synthesis call's: the HTTP
\* request failed after every proposal and a debate round had succeeded
C29_Witness ==
    /\ ReportReturned /\ synth.code # 0
    /\ Len(errors) = 1 /\ errors[1].stage = "synthesis"
    /\ ReportSynthesis.what = "raw"
    /\ debates # << >>
    /\ \A id \in DOMAIN proposals : ~proposals[id].failed
    /\ \A id \in DOMAIN debates[1].responses : ~debates[1].responses[id].failed

\* the returns of the request's gateway calls with a nonzero code
FailedEnds == {p \in Events("end") : log[p].code # 0}

\* the place of a stage in the order of a runBrainstorm: the proposals, the
\* debate rounds in ascending order, the synthesis
StageRank(e) ==
    IF e.stage = "proposal" THEN 0
    ELSE IF e.stage = "debate" THEN e.round
    ELSE LoopRounds(debateRounds) + 1

\* C30: while a model.brainstorm runs, and in the report it returns, the error
\* log holds exactly one entry per gateway call that has returned a nonzero
\* code and none for the others; the i-th entry names the stage, the debate
\* round and the participant id of the i-th failed call, with its code; and
\* the entries stand in the order of the stages: proposals, debate rounds
\* ascending, synthesis.
C30_ErrorLogOnePerFailure ==
    (BrainstormRunning /\ pc \in {"proposal", "round", "debate", "await", "return", "read"}) =>
        /\ Len(errors) = Cardinality(FailedEnds)
        /\ \A p \in FailedEnds :
              LET i == Cardinality({q \in FailedEnds : q <= p})
              IN  /\ errors[i].stage = log[p].call.stage
                  /\ errors[i].round = log[p].call.round
                  /\ errors[i].id = participants[log[p].call.who].id
                  /\ errors[i].code = log[p].code
                  /\ errors[i].stage \in {"proposal", "debate", "synthesis"}
                  /\ errors[i].stage = "debate" <=> errors[i].round >= 1
        /\ \A i, j \in DOMAIN errors : i < j => StageRank(errors[i]) <= StageRank(errors[j])

\* a report with a success and three logged failures, one of each stage
C30_Witness ==
    /\ ReportReturned
    /\ Len(errors) = 3
    /\ errors[1].stage = "proposal" /\ errors[2].stage = "debate"
    /\ errors[3].stage = "synthesis"
    /\ Cardinality(Events("end")) > 3

\* the debate_rounds argument of msg
RoundsArg == Arg(msg.args, "debate_rounds", Absent)

\* C31: the debate history of a report has as many entries as the report's
\* debate_rounds field says, numbered 1, 2, ..., R in that order, each with
\* one response for every participant id; and the reported debate_rounds is
\* an integer in [0, 5] whatever the debate_rounds argument was.
C31_DebateHistoryMatchesRounds ==
    ReportReturned =>
        /\ ReportDebateRounds.k = "int"
        /\ ReportDebateRounds.v \in 0..5
        /\ Len(debates) = ReportDebateRounds.v
        /\ \A r \in DOMAIN debates :
              /\ debates[r].round = r
              /\ DOMAIN debates[r].responses = {participants[i].id : i \in DOMAIN participants}

\* C32: a bridge call that has spawned its subprocess returns: the child
\* closes, or the spawn fails, or the timer fires, the child is killed and the
\* call returns; it does not stay pending once the timeout has elapsed.
C32_SpawnedCallReturns == (pc = "run") ~> (pc # "run")

C34_IsErrorIffNonzeroExit ==
    run.set =>
        /\ server = "runner" /\ msg.name \in RunnerTools
        /\ \E j \in DOMAIN spawns : spawns[j].for = msgNo
        /\ toolResult.set /\ toolResult.why = "run"
        /\ toolResult.isError <=> run.exitCode # 0
        /\ run.timedOut => toolResult.isError
        /\ run.exitCode = 0 => ~toolResult.isError /\ ~run.timedOut
        /\ \A p \in FramesFor(msgNo) :
              out[p] = successResponse(msgNo, msg.id, TRUE, run.exitCode # 0)

\* a claude.review_diff whose child was killed by the timer is answered with
\* isError true
C34_Witness ==
    /\ pc = "read" /\ msg.name = "claude.review_diff"
    /\ run.set /\ run.timedOut /\ run.exitCode = 124
    /\ toolResult.isError
    /\ Last(out) = successResponse(msgNo, "a", TRUE, TRUE)

\* msg is a bridge call that supplies no working directory: the argument is
\* absent, empty or no string
NoCwdSupplied ==
    /\ server = "runner" /\ msgNo >= 1
    /\ msg.method = "tools/call" /\ msg.name # ""
    /\ \/ "cwd" \notin DOMAIN msg.args
       \/ "segs" \notin DOMAIN msg.args.cwd
       \/ msg.args.cwd = NoPath

\* C35: a bridge call that supplies no working directory is checked with the
\* server process's own working directory, by the same containment check as a
\* supplied one; when that directory lies outside every allowed root the call
\* is answered with an error result and no subprocess is spawned for it.
C35_DefaultCwdIsChecked ==
    (NoCwdSupplied /\ pc # "handle") =>
        /\ validation.set
        /\ validation.cwd = procCwd
        /\ validation.ok <=> \E j \in DOMAIN roots : isUnder(roots[j], procCwd)
        /\ (\A j \in DOMAIN roots : ~Contains(roots[j], procCwd)) =>
              /\ ~validation.ok
              /\ pc \in {"read", "exited", "failed"}
              /\ toolResult.set /\ toolResult.isError /\ toolResult.why = "cwd"
              /\ spawns = << >> /\ reads = {} /\ ~run.set
              /\ child = "none" /\ ~timer

\* a claude.review_diff whose cwd is a number, in a server started outside
\* its one allowed root: refused, nothing spawned
C35_Witness ==
    /\ NoCwdSupplied /\ pc = "read"
    /\ msg.name = "claude.review_diff"
    /\ "cwd" \in DOMAIN msg.args /\ "segs" \notin DOMAIN msg.args.cwd
    /\ roots = <<<<SegW>>>> /\ procCwd = <<SegEtc>>
    /\ ~validation.ok /\ toolResult.isError
    /\ spawns = << >>

\* C36: claude.one_shot reads a context file only if its resolved path lies
\* within the allowed roots: no file outside every root is read and put into
\* the prompt, whether its entry is relative, has .. segments or is absolute.
C36_ContextFilesWithinRoots ==
    \A r \in reads :
        r.kind = "content" => \E j \in DOMAIN roots : Contains(roots[j], r.file)

\* the participants argument of msg, each entry with its 1-based position
RawParticipants ==
    LET raw == Arg(msg.args, "participants", << >>)
    IN  [i \in DOMAIN raw |-> [pos |-> i, item |-> raw[i]]]

\* an entry that is an object with a non-empty provider and a non-empty model
NonEmptyEntry(e) == e.item.obj /\ e.item.provider # "" /\ e.item.model # ""

\* an entry that is an object with a non-empty provider and a model that is
\* not empty once the white space around it is taken off
NonBlankEntry(e) == e.item.obj /\ e.item.provider # "" /\ ~Blank(e.item.model)

\* the id of a kept entry: its own, or model_<k> for its position k in the
\* argument
KeptId(e) ==
    IF e.item.id # "" THEN e.item.id
    ELSE <<"model_1", "model_2", "model_3", "model_4", "model_5">>[e.pos]

\* C37 as stated: model.brainstorm keeps, in their order, exactly the entries
\* of the participants argument that are objects with a non-empty provider and
\* a non-empty model; a kept entry without an id gets model_<k> for its
\* position k in the argument; the report lists the ids of the kept entries.
C37_KeepsNonEmptyEntries ==
    BrainstormRunning =>
        LET kept == SelectSeq(RawParticipants, NonEmptyEntry)
        IN  /\ Len(participants) = Len(kept)
            /\ \A j \in DOMAIN kept : participants[j].id = KeptId(kept[j])
            /\ ReportParticipants = [j \in DOMAIN kept |-> KeptId(kept[j])]

\* C37, amended: the entries kept are those that are objects with a non-empty
\* provider and a model that is non-empty after its surrounding white space
\* is removed; their order, their ids (model_<k> by position in the argument
\* for an entry without one) and the report's participant list are as stated.
C37_KeepsNonBlankEntries ==
    BrainstormRunning =>
        LET kept == SelectSeq(RawParticipants, NonBlankEntry)
        IN  /\ Len(participants) = Len(kept)
            /\ \A j \in DOMAIN kept :
                  /\ participants[j].id = KeptId(kept[j])
                  /\ participants[j].provider = ToLowerCase(kept[j].item.provider)
                  /\ participants[j].api_key = kept[j].item.api_key
                  /\ participants[j].api_url = kept[j].item.api_url
            /\ ReportParticipants = [j \in DOMAIN kept |-> KeptId(kept[j])]

\* a report for a list whose first entry was dropped: the entry kept has no
\* id and is listed as model_2
C37_Witness ==
    /\ ReportReturned
    /\ Len(Arg(msg.args, "participants", << >>)) = 2
    /\ Arg(msg.args, "participants", << >>)[2].id = ""
    /\ ReportParticipants = <<"model_2">>

\* the max_file_chars argument of msg
CapArg == Arg(msg.args, "max_file_chars", Absent)

\* the cap C38 states for msg: the argument, 6000 when it is absent
ClaimedCap == IF CapArg.k = "absent" THEN DEFAULT_MAX_FILE_CHARS ELSE CapArg.v

\* C38: in the prompt claude.one_shot builds, every context file contributes
\* at most max_file_chars characters of content (6000 when the argument is
\* absent), whatever number the argument is; a file that does not exist
\* contributes "(missing)" and a file that cannot be read "(read failed)",
\* and the call goes on to run its subprocess.
C38_ContextFileCap ==
    \A r \in reads :
        (r.for = msgNo /\ CapArg.k \in {"absent", "int", "half"}) =>
            /\ r.kind = "content" => r.chars <= ClaimedCap
            /\ r.kind = "missing" => r.chars = Len("(missing)")
            /\ r.kind = "failed" => r.chars = Len("(read failed)")
            /\ \E j \in DOMAIN spawns : spawns[j].for = r.for

====
